---- MODULE Spec2Model ----
(***************************************************************************)
(* The worklet side of SpessaSynth: WorkletProcessor (worklet_processor.js)*)
(* with its channels, voices, hold pedal, voice stealing, sample dumps and *)
(* the block renderer.                                                     *)
(*                                                                         *)
(* Time is counted in render quanta: one call of process() renders one     *)
(* quantum and the audio clock (currentTime) then advances by one.  A      *)
(* quantum stands for 0.07 s, so MIN_NOTE_LENGTH = 0.07 s is 1 quantum.    *)
(*                                                                         *)
(* Voices are JavaScript objects shared by reference between a channel's   *)
(* voices and sustainedVoices arrays: the model keeps them in a heap       *)
(* indexed by an object identity, and the arrays hold identities.          *)
(***************************************************************************)
EXTENDS Integers, Sequences, FiniteSets, TLC

\* ------------------------------------------------------------------ bounds
MaxVoices == 3        \* voice objects that exist at one time
MaxTime == 2          \* the audio clock stops advancing here
MaxChannels == 2      \* channels after addNewChannel
InitialChannels == 1  \* processorOptions.midiChannels
MaxSustained == 2     \* length of a sustainedVoices array
MaxLatency == 0       \* quanta between building a voice and its noteOn
MaxGroup == 1         \* voices delivered by one noteOn
SampleFrames == 2     \* frames of a dumped sample
VOICE_CAP == 2        \* synthetizer.js VOICE_CAP, scaled down to the model
CHANNEL_CAP == 2      \* channel_processor.js CHANNEL_CAP (400), scaled down to the model
MaxKill == 2          \* voices a killNotes message asks for
PedalVoices == 2      \* voice objects in the hold pedal's machine
RenderVoices == 2     \* voice objects in the renderer's machine

\* ------------------------------------------------------- program constants
MIN_NOTE_LENGTH == 1  \* 0.07 s, in quanta of 0.07 s
Infinity == 1000      \* releaseStartTime of a voice that was never released
sustainPedal == 64    \* midiControllers.sustainPedal
mainVolume == 7       \* midiControllers.mainVolume
pan == 10             \* midiControllers.pan
expressionController == 11
releaseTime == 72     \* midiControllers.releaseTime
brightness == 74      \* midiControllers.brightness
NON_CC_INDEX_OFFSET == 128
channelPressure == 13 \* modulatorSources.channelPressure
pitchWheel == 14      \* modulatorSources.pitchWheel
pitchWheelRange == 16 \* modulatorSources.pitchWheelRange
channelTuning == 17   \* modulatorSources.channelTuning
channelTranspose == 18
SilentAttenuation == 2500
ExclusiveRelease == -7200
KillRelease == -12000

VoiceIds == 1..MaxVoices
Notes == {60, 61}
Velocities == {40, 100}
SampleIds == {1}
GenIds == {"exclusiveClass", "releaseVolEnv", "initialAttenuation",
           "endAddrOffset", "endAddrsCoarseOffset", "velocity"}
\* the samples of the preset
PresetSampleIds == {1, 2}
UnloadedFrames == 0   \* sampleData.length of a sample that is still being decoded
MaxPending == 2       \* decodes of one sample that are under way at one time
MaxPosted == 3        \* sampleDump messages counted for one sample
\* the event names the EventHandler's constructor puts in this.events
EventTypes == {"noteoff", "noteon", "pitchwheel", "controllerchange", "programchange",
               "drumchange", "stopall", "newchannel", "mutechannel"}
\* the slots of the controller table the model keeps: those with a default,
\* the sustain pedal's and the transposition's
CCs == {mainVolume, sustainPedal, pan, expressionController, releaseTime, brightness,
        NON_CC_INDEX_OFFSET + channelPressure, NON_CC_INDEX_OFFSET + pitchWheel,
        NON_CC_INDEX_OFFSET + pitchWheelRange, NON_CC_INDEX_OFFSET + channelTuning,
        NON_CC_INDEX_OFFSET + channelTranspose}

VARIABLES
    workletProcessorChannels,                 \* this.workletProcessorChannels
    heap,                     \* the WorkletVoice objects, by identity
    workletDumpedSamplesList, \* sample id -> frames of the dumped data, 0 = undefined
    totalVoicesAmount,        \* this.totalVoicesAmount
    currentTime,              \* AudioWorkletGlobalScope.currentTime
    lastEvent,                \* history: the last message or block that changed the state
    portMessage,              \* the last message posted on this.port, <<>> before the first
    cachedVoices,             \* main thread: cachedVoices[midiNote][velocity] of the channel
    globalDumpedSamplesList,  \* main thread: the sample ids whose dump was requested
    isSampleLoaded,           \* main thread: sample.isSampleLoaded of the preset's samples
    workletVoices,            \* main thread: what the last getWorkletVoices returned
    lastCall,                 \* history: the last getWorkletVoices call
    pendingDumps,             \* main thread: sample id -> getAudioData() promises not yet resolved
    postedDumps,              \* history: sample id -> sampleDump messages posted since clearSamplesList
    events,                   \* EventHandler: this.events, name -> the [id, callback] entries in key order
    invoked                   \* history: the last callEvent and the callbacks it invoked, in order

\* the program's state
state == <<workletProcessorChannels, heap, workletDumpedSamplesList, totalVoicesAmount, currentTime>>

\* the variables of the voice builder on the main thread
builder == <<cachedVoices, globalDumpedSamplesList, isSampleLoaded, workletVoices, lastCall,
            pendingDumps, postedDumps>>

\* the variables of the synthesizer's event handler
synthEvents == <<events, invoked>>

vars == <<state, lastEvent, portMessage, builder, synthEvents>>

\* ----------------------------------------------------------------- helpers
Range(s) == {s[i] : i \in DOMAIN s}

Max(a, b) == IF a >= b THEN a ELSE b

Min(a, b) == IF a <= b THEN a ELSE b

\* the first index of x in s, 0 when absent (Array.prototype.indexOf, 1-based)
RECURSIVE IndexOfFrom(_, _, _)
IndexOfFrom(s, x, i) ==
    IF i > Len(s) THEN 0
    ELSE IF s[i] = x THEN i
    ELSE IndexOfFrom(s, x, i + 1)

IndexOf(s, x) == IndexOfFrom(s, x, 1)

RemoveAt(s, i) == [j \in 1..(Len(s) - 1) |-> IF j < i THEN s[j] ELSE s[j + 1]]

\* a voice slot that holds no object
NoVoice == [free |-> TRUE]

IsVoice(v) == "midiNote" \in DOMAIN v

\* ------------------------------------------------------------ controllers
\* resetArray, on the controller slots the model keeps
resetArray ==
    [cc \in CCs |->
        IF cc = mainVolume THEN 100 * 128
        ELSE IF cc = expressionController THEN 127 * 128
        ELSE IF cc = pan THEN 64 * 128
        ELSE IF cc = releaseTime THEN 64 * 128
        ELSE IF cc = brightness THEN 64 * 128
        ELSE IF cc = NON_CC_INDEX_OFFSET + pitchWheel THEN 8192
        ELSE IF cc = NON_CC_INDEX_OFFSET + pitchWheelRange THEN 2 * 128
        ELSE IF cc = NON_CC_INDEX_OFFSET + channelPressure THEN 127 * 128
        ELSE 0]

\* a number stored into an Int16Array
Int16(x) == ((x + 32768) % 65536) - 32768

\* {rate: 0, depth: 0, delay: 0}
NoVibrato == [delay |-> 0, depth |-> 0, rate |-> 0]

\* createWorkletChannel: the channel record after resetControllers(.., [])
NewChannel ==
    [midiControllers |-> resetArray,
     voices |-> <<>>,
     sustainedVoices |-> <<>>,
     holdPedal |-> FALSE,
     channelVibrato |-> NoVibrato,
     isMuted |-> FALSE]

\* -------------------------------------------------------------- modulators
\* one modulator's offset into its destination: a linear negative unipolar
\* source over the 14-bit controller value
modulatorValue(m, controllers) ==
    (m.amount * (16384 - controllers[m.source])) \div 16384

RECURSIVE modulatorSum(_, _, _)
modulatorSum(mods, g, controllers) ==
    IF mods = <<>> THEN 0
    ELSE (IF Head(mods).destination = g
            THEN modulatorValue(Head(mods), controllers) ELSE 0)
         + modulatorSum(Tail(mods), g, controllers)

computeModulators(v, controllers) ==
    [v EXCEPT !.modulatedGenerators =
        [g \in GenIds |-> v.generators[g] + modulatorSum(v.modulators, g, controllers)]]

\* ------------------------------------------------------------------ voices
\* the zones a preset lookup yields: generators after addAndClampGenerator,
\* modulators, and the sample slice
defaultGenerators ==
    [g \in GenIds |-> IF g = "releaseVolEnv" THEN -12000
                      ELSE IF g = "velocity" THEN -1 ELSE 0]

volumeModulator ==
    [source |-> mainVolume, destination |-> "initialAttenuation", amount |-> 960]

\* a one-shot zone; dataLength is sample.sampleData.length when the voice is built
PlainZone ==
    [sampleID |-> 1,
     dataLength |-> SampleFrames,
     generators |-> defaultGenerators,
     modulators |-> <<volumeModulator>>,
     playbackStep |-> 1,
     loopStart |-> 0, loopEnd |-> 0, loopingMode |-> 0]

\* a looping zone of an exclusive class
ExclusiveZone ==
    [sampleID |-> 1,
     dataLength |-> SampleFrames,
     generators |-> [defaultGenerators EXCEPT !["exclusiveClass"] = 1,
                                              !["initialAttenuation"] = 2000,
                                              !["releaseVolEnv"] = -4000],
     modulators |-> <<volumeModulator>>,
     playbackStep |-> 1,
     loopStart |-> 0, loopEnd |-> 1, loopingMode |-> 1]

Zones == {PlainZone, ExclusiveZone}

\* a looping zone of a second exclusive class
OtherClassZone == [ExclusiveZone EXCEPT !.generators["exclusiveClass"] = 2]

CutZones == Zones \cup {OtherClassZone}

\* the WorkletVoice record keeping the zone's sampleModes whatever the loop
BuildVoiceKeepingMode(channel, midiNote, velocity, zone, now) ==
    [generators |-> zone.generators,
     modulators |-> zone.modulators,
     modulatedGenerators |-> [g \in GenIds |-> 0],
     sample |-> [sampleID |-> zone.sampleID,
                 playbackStep |-> zone.playbackStep,
                 cursor |-> 0,
                 loopStart |-> zone.loopStart,
                 loopEnd |-> zone.loopEnd,
                 end |-> zone.dataLength - 1 + zone.generators["endAddrOffset"]
                           + zone.generators["endAddrsCoarseOffset"] * 32768,
                 loopingMode |-> zone.loopingMode],
     velocity |-> velocity,
     midiNote |-> midiNote,
     channelNumber |-> channel,
     startTime |-> now,
     releaseStartTime |-> Infinity,
     finished |-> FALSE,
     isInRelease |-> FALSE,
     currentAttenuationDb |-> 100,
     volumeEnvelopeState |-> 0]

\* the WorkletVoice record getWorkletVoices returns; the zone's loopingMode
\* is its sampleModes generator, which a loop shorter than one frame disables
BuildVoice(channel, midiNote, velocity, zone, now) ==
    [generators |-> zone.generators,
     modulators |-> zone.modulators,
     modulatedGenerators |-> [g \in GenIds |-> 0],
     sample |-> [sampleID |-> zone.sampleID,
                 playbackStep |-> zone.playbackStep,
                 cursor |-> 0,
                 loopStart |-> zone.loopStart,
                 loopEnd |-> zone.loopEnd,
                 end |-> zone.dataLength - 1 + zone.generators["endAddrOffset"]
                           + zone.generators["endAddrsCoarseOffset"] * 32768,
                 loopingMode |-> IF zone.loopEnd - zone.loopStart < 1 THEN 0 ELSE zone.loopingMode],
     velocity |-> velocity,
     midiNote |-> midiNote,
     channelNumber |-> channel,
     startTime |-> now,
     releaseStartTime |-> Infinity,
     finished |-> FALSE,
     isInRelease |-> FALSE,
     currentAttenuationDb |-> 100,
     volumeEnvelopeState |-> 0]

\* an entry of cachedVoices nothing was stored in
undefined == [defined |-> FALSE, voices |-> <<>>]

\* a zone of the preset's second sample whose velocity generator is set
VelocityZone ==
    [PlainZone EXCEPT !.sampleID = 2, !.generators["velocity"] = 40]

\* a zone asking for a loop (sampleModes 1) whose loop points coincide
DegenerateZone ==
    [ExclusiveZone EXCEPT !.loopStart = 1, !.loopEnd = 1]

\* preset.getSamplesAndGenerators(midiNote, velocity): note 60 has a zone with
\* a velocity generator followed by a zone without, the other notes have a
\* looping zone followed by one whose loop is empty; every zone takes every
\* velocity
getSamplesAndGenerators(midiNote, velocity) ==
    IF midiNote = 60 THEN <<VelocityZone, PlainZone>> ELSE <<ExclusiveZone, DegenerateZone>>

\* the callback of getWorkletVoices's map over zones[i], zones[i+1], ...; the
\* variables it assigns (velocity, canCache, globalDumpedSamplesList) are
\* carried from one zone to the next
RECURSIVE MapZones(_, _, _, _, _, _, _, _)
MapZones(zones, i, midiNote, velocity, dumped, canCache, loaded, now) ==
    IF i > Len(zones)
    THEN [workletVoices |-> <<>>, velocity |-> velocity, dumped |-> dumped, canCache |-> canCache]
    ELSE LET zone == zones[i]
             id == zone.sampleID
             dumps == id \notin dumped
             canCache1 == IF dumps /\ ~loaded[id] THEN FALSE ELSE canCache
             velocity1 == IF zone.generators["velocity"] > -1
                          THEN zone.generators["velocity"] ELSE velocity
             sampleAndGenerators ==
                 [zone EXCEPT !.dataLength = IF loaded[id] THEN @ ELSE UnloadedFrames]
             voice == BuildVoice(0, midiNote, velocity1, sampleAndGenerators, now)
             rest == MapZones(zones, i + 1, midiNote, velocity1,
                              IF dumps THEN dumped \cup {id} ELSE dumped, canCache1, loaded, now)
         IN  [rest EXCEPT !.workletVoices = <<voice>> \o @]

\* sample.isCompressed: the preset's first sample is compressed and decoded
\* asynchronously, its second is not and is loaded from the start
isCompressed(id) == id = 1

\* getWorkletVoices(channel, midiNote, velocity, preset, context, ...) on the
\* channel's cache.  A hit returns the cached array itself, its voices'
\* startTime set to context.currentTime.  A miss maps the preset's zones to
\* new voices and stores the array under the velocity variable as the map
\* left it; dumpSample, called for every sample the map did not find in
\* globalDumpedSamplesList, posts the sampleDump of an uncompressed sample
\* at once and starts a decode for a compressed one
getWorkletVoices(midiNote, velocity) ==
    LET cached == cachedVoices[midiNote][velocity]
        zones == getSamplesAndGenerators(midiNote, velocity)
        built == MapZones(zones, 1, midiNote, velocity, globalDumpedSamplesList, TRUE,
                          isSampleLoaded, currentTime)
        restarted == [i \in DOMAIN cached.voices |->
                        [cached.voices[i] EXCEPT !.startTime = currentTime]]
        dumps == built.dumped \ globalDumpedSamplesList
    IN  /\ IF cached.defined
           THEN /\ workletVoices' = restarted
                /\ cachedVoices' = [cachedVoices EXCEPT ![midiNote][velocity].voices = restarted]
                /\ UNCHANGED <<globalDumpedSamplesList, pendingDumps, postedDumps>>
           ELSE /\ workletVoices' = built.workletVoices
                /\ globalDumpedSamplesList' = built.dumped
                /\ pendingDumps' = [id \in PresetSampleIds |->
                                      IF id \in dumps /\ isCompressed(id)
                                      THEN pendingDumps[id] + 1 ELSE pendingDumps[id]]
                /\ postedDumps' = [id \in PresetSampleIds |->
                                     IF id \in dumps /\ ~isCompressed(id)
                                     THEN postedDumps[id] + 1 ELSE postedDumps[id]]
                /\ \A id \in PresetSampleIds :
                      pendingDumps'[id] <= MaxPending /\ postedDumps'[id] <= MaxPosted
                /\ cachedVoices' =
                      IF built.canCache
                      THEN [cachedVoices EXCEPT ![midiNote][built.velocity] =
                              [defined |-> TRUE, voices |-> built.workletVoices]]
                      ELSE cachedVoices
        /\ lastCall' = [midiNote |-> midiNote, velocity |-> velocity, cached |-> cached.defined,
                        loaded |-> \A i \in DOMAIN zones : isSampleLoaded[zones[i].sampleID]]
        /\ UNCHANGED isSampleLoaded

\* clearSamplesList(); the count of posted messages starts again
clearSamplesList ==
    /\ globalDumpedSamplesList' = {}
    /\ postedDumps' = [id \in PresetSampleIds |-> 0]
    /\ UNCHANGED <<cachedVoices, isSampleLoaded, workletVoices, lastCall, pendingDumps>>

\* a decode started by dumpSample delivering the data of sample id: the
\* callback of sample.getAudioData().then posts the sampleDump message, which
\* the processor receives as OnSampleDump
sampleDecoded(id) ==
    /\ pendingDumps[id] > 0
    /\ postedDumps[id] < MaxPosted
    /\ pendingDumps' = [pendingDumps EXCEPT ![id] = @ - 1]
    /\ postedDumps' = [postedDumps EXCEPT ![id] = @ + 1]
    /\ isSampleLoaded' = [isSampleLoaded EXCEPT ![id] = TRUE]
    /\ UNCHANGED <<cachedVoices, globalDumpedSamplesList, workletVoices, lastCall>>

\* releaseVoice without the minimum note length
releaseVoiceNoFloor(v, now) == [v EXCEPT !.releaseStartTime = now]

\* releaseVoice flooring at the start time, without the minimum note length
releaseVoiceAtStart(v, now) ==
    [v EXCEPT !.releaseStartTime = IF now < v.startTime THEN v.startTime ELSE now]

\* releaseVoice restarting the envelope of the voice it releases
releaseVoiceReviving(v, now) ==
    [v EXCEPT !.releaseStartTime =
                 IF now - v.startTime < MIN_NOTE_LENGTH
                 THEN v.startTime + MIN_NOTE_LENGTH
                 ELSE now,
              !.finished = FALSE]

\* releaseVoice
releaseVoice(v, now) ==
    [v EXCEPT !.releaseStartTime =
        IF now - v.startTime < MIN_NOTE_LENGTH
        THEN v.startTime + MIN_NOTE_LENGTH
        ELSE now]

\* the objects some array still refers to; the others are garbage
Reachable(chs) ==
    UNION {Range(chs[c].voices) \cup Range(chs[c].sustainedVoices) : c \in DOMAIN chs}

NumChannels == Cardinality(DOMAIN workletProcessorChannels)

Collect(chs, h) == [id \in VoiceIds |-> IF id \in Reachable(chs) THEN h[id] ELSE NoVoice]


\* ---------------------------------------------------------- voice stealing
\* channels.map(channel => channel.voices).flat()
RECURSIVE FlatVoices(_, _)
FlatVoices(chs, c) ==
    IF c \notin DOMAIN chs THEN <<>> ELSE chs[c].voices \o FlatVoices(chs, c + 1)

\* Array.prototype.sort((v1, v2) => v1.velocity - v2.velocity): a stable sort
RECURSIVE InsertByVelocity(_, _, _)
InsertByVelocity(h, sorted, id) ==
    IF sorted = <<>> THEN <<id>>
    ELSE IF h[Head(sorted)].velocity <= h[id].velocity
         THEN <<Head(sorted)>> \o InsertByVelocity(h, Tail(sorted), id)
         ELSE <<id>> \o sorted

\* the array left as it is, unsorted
SortNothing(h, s) == s

RECURSIVE SortByVelocity(_, _)
SortByVelocity(h, s) ==
    IF s = <<>> THEN <<>>
    ELSE InsertByVelocity(h, SortByVelocity(h, SubSeq(s, 1, Len(s) - 1)), s[Len(s)])

\* a splice that always drops the last voice of the channel
SpliceLast(chs, h, id) ==
    LET c == h[id].channelNumber
        vs == chs[c].voices
    IN  [chs EXCEPT ![c].voices = IF vs = <<>> THEN vs ELSE SubSeq(vs, 1, Len(vs) - 1)]

\* voices.splice(voices.indexOf(voice), 1) on the voice's own channel;
\* indexOf gives -1 for a voice that is not there and splice(-1, 1) drops the last
SpliceVoice(chs, h, id) ==
    LET c == h[id].channelNumber
        vs == chs[c].voices
        i == IndexOf(vs, id)
    IN  [chs EXCEPT ![c].voices =
            IF i = 0
            THEN (IF vs = <<>> THEN vs ELSE SubSeq(vs, 1, Len(vs) - 1))
            ELSE RemoveAt(vs, i)]

RECURSIVE KillLoop(_, _, _, _)
KillLoop(chs, h, ordered, amount) ==
    IF amount <= 0 THEN chs
    ELSE KillLoop(SpliceVoice(chs, h, Head(ordered)), h, Tail(ordered), amount - 1)

\* the voices voiceKilling(amount) selects, in the order it removes them
KillSelection(chs, h, amount) ==
    LET ordered == SortByVelocity(h, FlatVoices(chs, 0))
        n == IF Len(ordered) < amount THEN Len(ordered) ELSE amount
    IN  SubSeq(ordered, 1, n)

\* voiceKilling: the channels afterwards
voiceKilling(chs, h, amount) ==
    LET sel == KillSelection(chs, h, amount)
    IN  KillLoop(chs, h, sel, Len(sel))

\* ---------------------------------------------------------------- handlers
FreeIds == {id \in VoiceIds : ~IsVoice(heap[id])}

RECURSIVE TakeFree(_, _)
TakeFree(free, k) ==
    IF k = 0 THEN <<>>
    ELSE LET m == CHOOSE x \in free : \A y \in free : x <= y
         IN  <<m>> \o TakeFree(free \ {m}, k - 1)

Event(type, c, data) == [messageType |-> type, channelNumber |-> c, messageData |-> data]

\* what updateVoicesAmount() posts: every channel's voices.length
updateVoicesAmount(chs) == [c \in DOMAIN chs |-> Len(chs[c].voices)]

\* the messages whose handler ends in updateVoicesAmount(): noteOn (directly
\* or at the end of voiceKilling), killNotes, and stopAll with data 1
PostsVoicesAmount(message) ==
    \/ message.messageType \in {"noteOn", "killNotes"}
    \/ message.messageType = "stopAll" /\ message.messageData = 1

\* a handler run on a message: the history keeps the message when it changed something
Handle(handler, message) ==
    /\ handler
    /\ lastEvent' = IF state' = state THEN lastEvent ELSE message
    /\ portMessage' = IF PostsVoicesAmount(message)
                      THEN updateVoicesAmount(workletProcessorChannels')
                      ELSE portMessage
    /\ UNCHANGED <<builder, synthEvents>>

\* noteOff that moves a held voice out of voices instead of sharing it
NoteOffMoving(c, note) ==
    LET ch == workletProcessorChannels[c]
        hit == SelectSeq(ch.voices,
                   LAMBDA id : heap[id].midiNote = note /\ ~heap[id].isInRelease)
    IN  /\ ch.holdPedal => Len(ch.sustainedVoices) + Len(hit) <= MaxSustained
        /\ IF ch.holdPedal
           THEN /\ workletProcessorChannels' = [workletProcessorChannels EXCEPT
                                  ![c].sustainedVoices = @ \o hit,
                                  ![c].voices = SelectSeq(@, LAMBDA id : id \notin Range(hit))]
                /\ heap' = heap
           ELSE /\ workletProcessorChannels' = workletProcessorChannels
                /\ heap' = [id \in VoiceIds |->
                              IF id \in Range(hit)
                              THEN releaseVoice(heap[id], currentTime) ELSE heap[id]]
        /\ UNCHANGED <<workletDumpedSamplesList, totalVoicesAmount, currentTime>>

\* noteOff that does not look at isInRelease
NoteOffReleasingAgain(c, note) ==
    LET ch == workletProcessorChannels[c]
        hit == SelectSeq(ch.voices, LAMBDA id : heap[id].midiNote = note)
    IN  /\ ch.holdPedal => Len(ch.sustainedVoices) + Len(hit) <= MaxSustained
        /\ IF ch.holdPedal
           THEN /\ workletProcessorChannels' = [workletProcessorChannels EXCEPT ![c].sustainedVoices = @ \o hit]
                /\ heap' = heap
           ELSE /\ workletProcessorChannels' = workletProcessorChannels
                /\ heap' = [id \in VoiceIds |->
                              IF id \in Range(hit)
                              THEN releaseVoice(heap[id], currentTime) ELSE heap[id]]
        /\ UNCHANGED <<workletDumpedSamplesList, totalVoicesAmount, currentTime>>

\* case workletMessageType.noteOff
NoteOff(c, note) ==
    LET ch == workletProcessorChannels[c]
        hit == SelectSeq(ch.voices,
                   LAMBDA id : heap[id].midiNote = note /\ ~heap[id].isInRelease)
    IN  /\ ch.holdPedal => Len(ch.sustainedVoices) + Len(hit) <= MaxSustained
        /\ IF ch.holdPedal
           THEN /\ workletProcessorChannels' = [workletProcessorChannels EXCEPT ![c].sustainedVoices = @ \o hit]
                /\ heap' = heap
           ELSE /\ workletProcessorChannels' = workletProcessorChannels
                /\ heap' = [id \in VoiceIds |->
                              IF id \in Range(hit)
                              THEN releaseVoice(heap[id], currentTime) ELSE heap[id]]
        /\ UNCHANGED <<workletDumpedSamplesList, totalVoicesAmount, currentTime>>

\* killNote that leaves the voices in release alone
KillNoteSparingReleased(c, note) ==
    LET hit == {id \in Range(workletProcessorChannels[c].voices) :
                   heap[id].midiNote = note /\ ~heap[id].isInRelease}
    IN  /\ heap' = [id \in VoiceIds |->
                      IF id \in hit
                      THEN releaseVoice(
                             [heap[id] EXCEPT !.modulatedGenerators["releaseVolEnv"] = KillRelease],
                             currentTime)
                      ELSE heap[id]]
        /\ UNCHANGED <<workletProcessorChannels, workletDumpedSamplesList, totalVoicesAmount,
                       currentTime>>

\* case workletMessageType.killNote
KillNote(c, note) ==
    LET hit == {id \in Range(workletProcessorChannels[c].voices) : heap[id].midiNote = note}
    IN  /\ heap' = [id \in VoiceIds |->
                      IF id \in hit
                      THEN releaseVoice(
                             [heap[id] EXCEPT !.modulatedGenerators["releaseVolEnv"] = KillRelease],
                             currentTime)
                      ELSE heap[id]]
        /\ UNCHANGED <<workletProcessorChannels, workletDumpedSamplesList, totalVoicesAmount,
                       currentTime>>

\* noteOn without the exclusive class cutoff
NoteOnNoCut(c, data) ==
    LET ch == workletProcessorChannels[c]
        ids == TakeFree(FreeIds, Len(data))
        newVoice(v) ==
            [computeModulators(v, ch.midiControllers) EXCEPT !.currentAttenuationDb = 100]
        h1 == [id \in VoiceIds |->
                 IF id \in Range(ids) THEN newVoice(data[IndexOf(ids, id)]) ELSE heap[id]]
        chs1 == [workletProcessorChannels EXCEPT ![c].voices = @ \o ids]
        total1 == totalVoicesAmount + Len(data)
        sel == KillSelection(chs1, h1, total1 - VOICE_CAP)
    IN  /\ Cardinality(FreeIds) >= Len(data)
        /\ IF total1 > VOICE_CAP
           THEN /\ workletProcessorChannels' = voiceKilling(chs1, h1, total1 - VOICE_CAP)
                /\ totalVoicesAmount' = total1 - Len(sel)
           ELSE /\ workletProcessorChannels' = chs1
                /\ totalVoicesAmount' = total1
        /\ heap' = Collect(workletProcessorChannels', h1)
        /\ UNCHANGED <<workletDumpedSamplesList, currentTime>>

\* case workletMessageType.noteOn; data is the array of built voices
NoteOn(c, data) ==
    LET ch == workletProcessorChannels[c]
        ids == TakeFree(FreeIds, Len(data))
        classes == {data[i].generators["exclusiveClass"] : i \in DOMAIN data} \ {0}
        cut == {id \in Range(ch.voices) : heap[id].generators["exclusiveClass"] \in classes}
        cutVoice(v) ==
            computeModulators(
                [releaseVoice(v, currentTime) EXCEPT !.generators["releaseVolEnv"] = ExclusiveRelease],
                ch.midiControllers)
        newVoice(v) ==
            [computeModulators(v, ch.midiControllers) EXCEPT !.currentAttenuationDb = 100]
        h1 == [id \in VoiceIds |->
                 IF id \in cut THEN cutVoice(heap[id])
                 ELSE IF id \in Range(ids) THEN newVoice(data[IndexOf(ids, id)])
                 ELSE heap[id]]
        chs1 == [workletProcessorChannels EXCEPT ![c].voices = @ \o ids]
        total1 == totalVoicesAmount + Len(data)
        sel == KillSelection(chs1, h1, total1 - VOICE_CAP)
    IN  /\ Cardinality(FreeIds) >= Len(data)
        /\ IF total1 > VOICE_CAP
           THEN /\ workletProcessorChannels' = voiceKilling(chs1, h1, total1 - VOICE_CAP)
                /\ totalVoicesAmount' = total1 - Len(sel)
           ELSE /\ workletProcessorChannels' = chs1
                /\ totalVoicesAmount' = total1
        /\ heap' = Collect(workletProcessorChannels', h1)
        /\ UNCHANGED <<workletDumpedSamplesList, currentTime>>

\* case workletMessageType.sampleDump; the data has SampleFrames frames
SampleDump(c, sampleID) ==
    LET length == SampleFrames
        rehome(v) ==
            LET end == length - 1 + v.generators["endAddrOffset"]
                         + v.generators["endAddrsCoarseOffset"] * 32768
                cursor == v.sample.playbackStep * (currentTime - v.startTime)
            IN  IF v.sample.loopingMode = 0
                THEN [v EXCEPT !.sample.end = end, !.sample.cursor = cursor,
                               !.finished = IF cursor >= end THEN TRUE ELSE @]
                ELSE [v EXCEPT !.sample.end = end,
                               !.sample.cursor =
                                   IF cursor > v.sample.loopEnd
                                   THEN (cursor % (v.sample.loopEnd - v.sample.loopStart))
                                          + v.sample.loopStart - 1
                                   ELSE cursor]
    IN  /\ workletDumpedSamplesList' = [workletDumpedSamplesList EXCEPT ![sampleID] = length]
        /\ heap' = [id \in VoiceIds |->
                      IF id \in Range(workletProcessorChannels[c].voices) /\ heap[id].sample.sampleID = sampleID
                      THEN rehome(heap[id]) ELSE heap[id]]
        /\ UNCHANGED <<workletProcessorChannels, totalVoicesAmount, currentTime>>

\* resetControllers that does not put the transposition back
resetControllersLosingTranspose(ch, excluded) ==
    [ch EXCEPT !.midiControllers =
                   [cc \in CCs |-> IF cc \in excluded THEN ch.midiControllers[cc]
                                   ELSE resetArray[cc]],
               !.channelVibrato = NoVibrato,
               !.holdPedal = FALSE]

\* resetControllers(channel, excluded)
resetControllers(ch, excluded) ==
    LET transpose == ch.midiControllers[NON_CC_INDEX_OFFSET + channelTranspose]
        restored == [resetArray EXCEPT ![NON_CC_INDEX_OFFSET + channelTranspose] = transpose]
    IN  [ch EXCEPT !.midiControllers =
                       [cc \in CCs |-> IF cc \in excluded THEN ch.midiControllers[cc]
                                       ELSE restored[cc]],
                   !.channelVibrato = NoVibrato,
                   !.holdPedal = FALSE]

\* case workletMessageType.ccReset
CcReset(c, excluded) ==
    /\ workletProcessorChannels' = [workletProcessorChannels EXCEPT ![c] = resetControllers(@, excluded)]
    /\ UNCHANGED <<heap, workletDumpedSamplesList, totalVoicesAmount, currentTime>>

\* ccChange that recomputes the modulators before it stores the value
CcChangeBeforeStore(c, cc, val) ==
    LET ch == workletProcessorChannels[c]
        pedalUp == cc = sustainPedal /\ ~(val >= 64)
        released == IF pedalUp THEN Range(ch.sustainedVoices) ELSE {}
        controllers == [ch.midiControllers EXCEPT ![cc] = Int16(val)]
        h1 == [id \in VoiceIds |->
                 IF id \in released THEN releaseVoice(heap[id], currentTime) ELSE heap[id]]
        h2 == [id \in VoiceIds |->
                 IF id \in Range(ch.voices) THEN computeModulators(h1[id], ch.midiControllers)
                 ELSE h1[id]]
    IN  /\ workletProcessorChannels' = [workletProcessorChannels EXCEPT
                          ![c].holdPedal = IF cc = sustainPedal THEN val >= 64 ELSE @,
                          ![c].sustainedVoices = IF pedalUp THEN <<>> ELSE @,
                          ![c].midiControllers = controllers]
        /\ heap' = Collect(workletProcessorChannels', h2)
        /\ UNCHANGED <<workletDumpedSamplesList, totalVoicesAmount, currentTime>>

\* case workletMessageType.ccChange with data = [cc, val]
CcChange(c, cc, val) ==
    LET ch == workletProcessorChannels[c]
        pedalUp == cc = sustainPedal /\ ~(val >= 64)
        released == IF pedalUp THEN Range(ch.sustainedVoices) ELSE {}
        controllers == [ch.midiControllers EXCEPT ![cc] = Int16(val)]
        h1 == [id \in VoiceIds |->
                 IF id \in released THEN releaseVoice(heap[id], currentTime) ELSE heap[id]]
        h2 == [id \in VoiceIds |->
                 IF id \in Range(ch.voices) THEN computeModulators(h1[id], controllers)
                 ELSE h1[id]]
    IN  /\ workletProcessorChannels' = [workletProcessorChannels EXCEPT
                          ![c].holdPedal = IF cc = sustainPedal THEN val >= 64 ELSE @,
                          ![c].sustainedVoices = IF pedalUp THEN <<>> ELSE @,
                          ![c].midiControllers = controllers]
        /\ heap' = Collect(workletProcessorChannels', h2)
        /\ UNCHANGED <<workletDumpedSamplesList, totalVoicesAmount, currentTime>>

\* case workletMessageType.setChannelVibrato
SetChannelVibrato(c, data) ==
    /\ workletProcessorChannels' = [workletProcessorChannels EXCEPT ![c].channelVibrato = data]
    /\ UNCHANGED <<heap, workletDumpedSamplesList, totalVoicesAmount, currentTime>>

\* case workletMessageType.clearCache
ClearCache(c) ==
    /\ workletDumpedSamplesList' = [s \in SampleIds |-> 0]
    /\ UNCHANGED <<workletProcessorChannels, heap, totalVoicesAmount, currentTime>>

\* stopAll whose mode 0 does not look at isInRelease
StopAllReleasingAgain(c, mode) ==
    /\ IF mode = 1
       THEN /\ workletProcessorChannels' = [workletProcessorChannels EXCEPT ![c].voices = <<>>]
            /\ heap' = Collect(workletProcessorChannels', heap)
       ELSE /\ workletProcessorChannels' = workletProcessorChannels
            /\ heap' = [id \in VoiceIds |->
                          IF id \in Range(workletProcessorChannels[c].voices)
                          THEN releaseVoice(heap[id], currentTime) ELSE heap[id]]
    /\ UNCHANGED <<workletDumpedSamplesList, totalVoicesAmount, currentTime>>

\* case workletMessageType.stopAll
StopAll(c, mode) ==
    /\ IF mode = 1
       THEN /\ workletProcessorChannels' = [workletProcessorChannels EXCEPT ![c].voices = <<>>]
            /\ heap' = Collect(workletProcessorChannels', heap)
       ELSE /\ workletProcessorChannels' = workletProcessorChannels
            /\ heap' = [id \in VoiceIds |->
                          IF id \in Range(workletProcessorChannels[c].voices) /\ ~heap[id].isInRelease
                          THEN releaseVoice(heap[id], currentTime) ELSE heap[id]]
    /\ UNCHANGED <<workletDumpedSamplesList, totalVoicesAmount, currentTime>>

\* case workletMessageType.killNotes
KillNotes(c, amount) ==
    /\ workletProcessorChannels' = voiceKilling(workletProcessorChannels, heap, amount)
    /\ totalVoicesAmount' = totalVoicesAmount - Len(KillSelection(workletProcessorChannels, heap, amount))
    /\ heap' = Collect(workletProcessorChannels', heap)
    /\ UNCHANGED <<workletDumpedSamplesList, currentTime>>

\* case workletMessageType.muteChannel
MuteChannel(c, muted) ==
    /\ workletProcessorChannels' = [workletProcessorChannels EXCEPT ![c].isMuted = muted]
    /\ UNCHANGED <<heap, workletDumpedSamplesList, totalVoicesAmount, currentTime>>

\* case workletMessageType.addNewChannel
AddNewChannel(c) ==
    /\ NumChannels < MaxChannels
    /\ workletProcessorChannels' = [i \in 0..NumChannels |-> IF i \in DOMAIN workletProcessorChannels THEN workletProcessorChannels[i] ELSE NewChannel]
    /\ UNCHANGED <<heap, workletDumpedSamplesList, totalVoicesAmount, currentTime>>

\* ---------------------------------------------------------------- renderer
\* timecentsToSeconds, in quanta rounded up: 2^(t/1200) s, 0 from -12000 down;
\* 0.07 s is -4604 timecents, 0.14 s is -3404, and no zone here is longer
timecentsToQuanta(t) ==
    IF t <= -12000 THEN 0
    ELSE IF t <= -4604 THEN 1
    ELSE IF t <= -3404 THEN 2
    ELSE 3

\* getOscillatorData over one quantum: the cursor advances by playbackStep
\* (the tuning ratio is 1) and the loop policy is applied
getOscillatorData(v) ==
    LET smp == v.sample
        pos == smp.cursor + smp.playbackStep
        looping == smp.loopingMode = 1 \/ (smp.loopingMode = 2 /\ ~v.isInRelease)
        len == smp.loopEnd - smp.loopStart
    IN  IF looping
        THEN [v EXCEPT !.sample.cursor =
                 IF pos >= smp.loopEnd
                 THEN smp.loopStart + ((pos - smp.loopStart) % len)
                 ELSE pos]
        ELSE IF pos >= smp.end
             THEN [v EXCEPT !.sample.cursor = smp.end, !.finished = TRUE]
             ELSE [v EXCEPT !.sample.cursor = pos]

\* applyVolumeEnvelope over one quantum: delay, attack, hold and decay have
\* their SoundFont default -12000 (no time), so a sounding voice is at SUSTAIN
\* with no attenuation; a release that is over finishes the voice
applyVolumeEnvelope(v, now) ==
    IF v.isInRelease
    THEN IF now + 1 - v.releaseStartTime >= timecentsToQuanta(v.modulatedGenerators["releaseVolEnv"])
         THEN [v EXCEPT !.currentAttenuationDb = 100, !.finished = TRUE]
         ELSE v
    ELSE [v EXCEPT !.volumeEnvelopeState = 4, !.currentAttenuationDb = 0]

\* renderVoice entering release without looking at releaseStartTime
renderVoiceAlwaysReleasing(v, now) ==
    IF workletDumpedSamplesList[v.sample.sampleID] = 0
    THEN v
    ELSE LET v1 == [v EXCEPT !.isInRelease = TRUE]
         IN  IF v1.modulatedGenerators["initialAttenuation"] > SilentAttenuation
             THEN [v1 EXCEPT !.finished = TRUE]
             ELSE applyVolumeEnvelope(getOscillatorData(v1), now)

\* renderVoice without the look into the sample store
renderVoiceUnchecked(v, now) ==
    LET v1 == IF now >= v.releaseStartTime THEN [v EXCEPT !.isInRelease = TRUE] ELSE v
    IN  IF v1.modulatedGenerators["initialAttenuation"] > SilentAttenuation
        THEN (IF v1.isInRelease THEN [v1 EXCEPT !.finished = TRUE] ELSE v1)
        ELSE applyVolumeEnvelope(getOscillatorData(v1), now)

\* renderVoice returning at once, as for a sample that is not there
renderVoiceSkipping(v, now) == v

\* renderVoice looking at the attenuation before the release time
renderVoiceAttenuationFirst(v, now) ==
    IF workletDumpedSamplesList[v.sample.sampleID] = 0
    THEN v
    ELSE IF v.modulatedGenerators["initialAttenuation"] > SilentAttenuation
         THEN (IF v.isInRelease THEN [v EXCEPT !.finished = TRUE] ELSE v)
         ELSE LET v1 == IF ~v.isInRelease /\ now >= v.releaseStartTime
                        THEN [v EXCEPT !.isInRelease = TRUE]
                        ELSE v
              IN  applyVolumeEnvelope(getOscillatorData(v1), now)

\* renderVoice
renderVoice(v, now) ==
    IF workletDumpedSamplesList[v.sample.sampleID] = 0
    THEN v
    ELSE LET v1 == IF ~v.isInRelease /\ now >= v.releaseStartTime
                   THEN [v EXCEPT !.isInRelease = TRUE]
                   ELSE v
         IN  IF v1.modulatedGenerators["initialAttenuation"] > SilentAttenuation
             THEN (IF v1.isInRelease THEN [v1 EXCEPT !.finished = TRUE] ELSE v1)
             ELSE applyVolumeEnvelope(getOscillatorData(v1), now)

\* the test of process() without the mute flag
RenderedThoughMuted(c) == Len(workletProcessorChannels[c].voices) >= 1

\* the channels process() does not skip
Rendered(c) == Len(workletProcessorChannels[c].voices) >= 1 /\ ~workletProcessorChannels[c].isMuted

RECURSIVE SumRendered(_)
SumRendered(c) ==
    IF c \notin DOMAIN workletProcessorChannels THEN 0
    ELSE (IF Rendered(c) THEN Len(workletProcessorChannels[c].voices) ELSE 0) + SumRendered(c + 1)

\* process() pushing every rendered voice back, finished or not
ProcessKeepingFinished ==
    LET h1 == [id \in VoiceIds |->
                 IF \E c \in DOMAIN workletProcessorChannels : Rendered(c) /\ id \in Range(workletProcessorChannels[c].voices)
                 THEN renderVoice(heap[id], currentTime) ELSE heap[id]]
        totalCurrentVoices == SumRendered(0)
    IN  /\ currentTime < MaxTime
        /\ workletProcessorChannels' = workletProcessorChannels
        /\ heap' = Collect(workletProcessorChannels, h1)
        /\ IF totalCurrentVoices # totalVoicesAmount
           THEN totalVoicesAmount' = totalCurrentVoices
           ELSE UNCHANGED totalVoicesAmount
        /\ currentTime' = currentTime + 1
        /\ UNCHANGED workletDumpedSamplesList

\* process(inputs, outputs), and the clock advancing to the next quantum
Process ==
    LET h1 == [id \in VoiceIds |->
                 IF \E c \in DOMAIN workletProcessorChannels : Rendered(c) /\ id \in Range(workletProcessorChannels[c].voices)
                 THEN renderVoice(heap[id], currentTime) ELSE heap[id]]
        chs1 == [c \in DOMAIN workletProcessorChannels |->
                   IF Rendered(c)
                   THEN [workletProcessorChannels[c] EXCEPT
                           !.voices = SelectSeq(@, LAMBDA id : ~h1[id].finished)]
                   ELSE workletProcessorChannels[c]]
        totalCurrentVoices == SumRendered(0)
    IN  /\ currentTime < MaxTime
        /\ workletProcessorChannels' = chs1
        /\ heap' = Collect(chs1, h1)
        /\ IF totalCurrentVoices # totalVoicesAmount
           THEN totalVoicesAmount' = totalCurrentVoices
           ELSE UNCHANGED totalVoicesAmount
        /\ currentTime' = currentTime + 1
        /\ UNCHANGED workletDumpedSamplesList

\* -------------------------------------------------------------------- Init
Init ==
    /\ workletProcessorChannels = [c \in 0..(InitialChannels - 1) |-> NewChannel]
    /\ heap = [id \in VoiceIds |-> NoVoice]
    /\ workletDumpedSamplesList = [s \in SampleIds |-> 0]
    /\ totalVoicesAmount = 0
    /\ currentTime = 0
    /\ lastEvent = [messageType |-> "constructor", channelNumber |-> 0, messageData |-> 0]
    /\ portMessage = <<>>
    /\ cachedVoices = [n \in Notes |-> [vel \in Velocities |-> undefined]]
    /\ globalDumpedSamplesList = {}
    /\ isSampleLoaded = [s \in PresetSampleIds |-> ~isCompressed(s)]
    /\ pendingDumps = [s \in PresetSampleIds |-> 0]
    /\ postedDumps = [s \in PresetSampleIds |-> 0]
    /\ workletVoices = <<>>
    /\ lastCall = [midiNote |-> 0, velocity |-> 0, cached |-> FALSE, loaded |-> FALSE]
    /\ events = [name \in EventTypes |-> <<>>]
    /\ invoked = [name |-> "", eventData |-> 0, calls |-> <<>>]

\* ----------------------------------------------------------------- inputs
\* the start times a voice delivered now may carry
StartTimes == {t \in (currentTime - MaxLatency)..currentTime : t >= 0}

\* the voice groups a noteOn on channel c may deliver
NoteOnData(c, notes, zones, velocities) ==
    UNION {
      {[i \in 1..k |-> BuildVoice(c, note, zv[i][2], zv[i][1], start)] :
          zv \in [1..k -> zones \X velocities]}
      : k \in 1..MaxGroup, note \in notes, start \in StartTimes}

SustainValues == {63, 64}
KillAmounts == 0..MaxKill

\* -------------------------------------------------- the messages and blocks
\* process() called by the audio thread
OnProcess ==
    /\ Process
    /\ lastEvent' = Event("process", 0, 0)
    /\ portMessage' = IF SumRendered(0) # totalVoicesAmount
                      THEN updateVoicesAmount(workletProcessorChannels')
                      ELSE portMessage
    /\ UNCHANGED <<builder, synthEvents>>

\* the audio clock read from a later origin.  The program uses currentTime,
\* startTime and releaseStartTime only in differences and comparisons with
\* each other, so moving all of them back by one quantum changes nothing it
\* does; times more than MaxTime quanta in the past are kept at MaxTime quanta
\* in the past, which is beyond the minimum note length and the longest release
Rebase ==
    /\ currentTime = MaxTime
    /\ currentTime' = currentTime - 1
    /\ heap' = [id \in VoiceIds |->
                  IF IsVoice(heap[id])
                  THEN [heap[id] EXCEPT
                          !.startTime = Max(0, @ - 1),
                          !.releaseStartTime = IF @ = Infinity THEN Infinity ELSE Max(0, @ - 1)]
                  ELSE heap[id]]
    /\ UNCHANGED <<workletProcessorChannels, workletDumpedSamplesList, totalVoicesAmount, lastEvent, portMessage>>
    /\ UNCHANGED <<builder, synthEvents>>

\* port.onmessage with each message type, its data drawn from the given sets
OnNoteOff(notes) ==
    \E c \in DOMAIN workletProcessorChannels : \E note \in notes :
        Handle(NoteOff(c, note), Event("noteOff", c, note))

OnKillNote(notes) ==
    \E c \in DOMAIN workletProcessorChannels : \E note \in notes :
        Handle(KillNote(c, note), Event("killNote", c, note))

OnNoteOn(notes, zones, velocities, objects) ==
    \E c \in DOMAIN workletProcessorChannels : \E data \in NoteOnData(c, notes, zones, velocities) :
        /\ Cardinality(VoiceIds \ FreeIds) + Len(data) <= objects
        /\ Handle(NoteOn(c, data), Event("noteOn", c, data[1].midiNote))

OnSampleDump ==
    \E c \in DOMAIN workletProcessorChannels : \E sampleID \in SampleIds :
        Handle(SampleDump(c, sampleID), Event("sampleDump", c, sampleID))

OnCcReset(exclusions) ==
    \E c \in DOMAIN workletProcessorChannels : \E excluded \in exclusions :
        Handle(CcReset(c, excluded), Event("ccReset", c, excluded))

OnCcChange ==
    \E c \in DOMAIN workletProcessorChannels : \E val \in SustainValues :
        Handle(CcChange(c, sustainPedal, val), Event("ccChange", c, <<sustainPedal, val>>))

OnControllerChange(ccs, values) ==
    \E c \in DOMAIN workletProcessorChannels : \E cc \in ccs : \E val \in values :
        Handle(CcChange(c, cc, val), Event("ccChange", c, <<cc, val>>))

OnSetChannelVibrato(vibratos) ==
    \E c \in DOMAIN workletProcessorChannels : \E data \in vibratos :
        Handle(SetChannelVibrato(c, data), Event("setChannelVibrato", c, data))

OnClearCache ==
    \E c \in DOMAIN workletProcessorChannels : Handle(ClearCache(c), Event("clearCache", c, 0))

OnStopAll(modes) ==
    \E c \in DOMAIN workletProcessorChannels : \E mode \in modes :
        Handle(StopAll(c, mode), Event("stopAll", c, mode))

OnKillNotes ==
    \E c \in DOMAIN workletProcessorChannels : \E amount \in KillAmounts :
        Handle(KillNotes(c, amount), Event("killNotes", c, amount))

OnMuteChannel ==
    \E c \in DOMAIN workletProcessorChannels : \E muted \in BOOLEAN :
        Handle(MuteChannel(c, muted), Event("muteChannel", c, muted))

OnAddNewChannel ==
    \E c \in DOMAIN workletProcessorChannels : Handle(AddNewChannel(c), Event("addNewChannel", c, 0))

\* the controllers a ccChange or an exclusion may name, the values it may
\* carry, and the vibratos a setChannelVibrato may carry
ControlSlots == {mainVolume, NON_CC_INDEX_OFFSET + pitchWheel,
                 NON_CC_INDEX_OFFSET + channelTuning, NON_CC_INDEX_OFFSET + channelTranspose}
ControlValues == {-12, 5000}
Vibratos == {NoVibrato, [delay |-> 1, depth |-> 50, rate |-> 8]}

Next ==
    \/ OnProcess
    \/ OnNoteOff(Notes)
    \/ OnKillNote(Notes)
    \/ OnNoteOn(Notes, Zones, Velocities, MaxVoices)
    \/ OnSampleDump
    \/ OnCcReset(SUBSET {sustainPedal})
    \/ OnCcChange
    \/ OnControllerChange(ControlSlots, ControlValues)
    \/ OnSetChannelVibrato(Vibratos)
    \/ OnClearCache
    \/ OnStopAll({0, 1})
    \/ OnKillNotes
    \/ OnMuteChannel
    \/ OnAddNewChannel

Spec == Init /\ [][Next]_vars

\* ------------------------------------------------- the hold pedal's machine
\* one channel's notes, pedal and releases, with at most PedalVoices objects
NextPedal ==
    \/ OnProcess
    \/ OnNoteOff(Notes)
    \/ OnKillNote(Notes)
    \/ OnNoteOn(Notes, Zones, {100}, PedalVoices)
    \/ OnSampleDump
    \/ OnCcReset({{}})
    \/ OnCcChange
    \/ OnStopAll({0, 1})

SpecPedal == Init /\ [][NextPedal]_vars

\* ------------------------------------------- the voice manager's machine
\* voices of one note on up to MaxChannels channels: the cap, stealing, mute
NextSteal ==
    \/ OnProcess
    \/ OnNoteOn({60}, {PlainZone}, Velocities, MaxVoices)
    \/ OnStopAll({1})
    \/ OnKillNotes
    \/ OnMuteChannel
    \/ OnAddNewChannel

SpecSteal == Init /\ [][NextSteal]_vars

\* ------------------------------------------------- the renderer's machine
\* one channel's voices through dumps, cache clears, mute and blocks, with at
\* most RenderVoices objects
NextRender ==
    \/ OnProcess
    \/ OnNoteOff({60})
    \/ OnNoteOn({60}, Zones, {100}, RenderVoices)
    \/ OnSampleDump
    \/ OnClearCache
    \/ OnMuteChannel

SpecRender == Init /\ [][NextRender]_vars

\* ------------------------------------------------ the sample dump's machine
\* voices of one note on up to MaxChannels channels, built before or after
\* their sample is dumped, with at most RenderVoices objects
NextDump ==
    \/ OnProcess
    \/ OnNoteOn({60}, Zones, {100}, RenderVoices)
    \/ OnSampleDump
    \/ OnMuteChannel
    \/ OnAddNewChannel

SpecDump == Init /\ [][NextDump]_vars

\* ----------------------------------------------------- the noteOff machine
\* looping notes started and ended, with the pedal up or down, on up to
\* MaxChannels channels, with at most PedalVoices objects
NextFrame ==
    \/ OnProcess
    \/ OnNoteOff(Notes)
    \/ OnNoteOn(Notes, {ExclusiveZone}, {100}, PedalVoices)
    \/ OnSampleDump
    \/ OnCcChange
    \/ OnAddNewChannel

SpecFrame == Init /\ [][NextFrame]_vars

\* ---------------------------------------------------- the killNote machine
\* notes started, ended and killed on up to MaxChannels channels, with at
\* most PedalVoices objects
NextKill ==
    \/ OnProcess
    \/ OnNoteOff(Notes)
    \/ OnKillNote(Notes)
    \/ OnNoteOn(Notes, Zones, {100}, PedalVoices)
    \/ OnSampleDump
    \/ OnAddNewChannel

SpecKill == Init /\ [][NextKill]_vars

\* ------------------------------------------- the exclusive class's machine
\* voices of one note, with and without an exclusive class, on up to
\* MaxChannels channels, cut by later voices of their class and stolen over
\* the cap
NextCut ==
    \/ OnProcess
    \/ OnNoteOn({60}, CutZones, {100}, MaxVoices)
    \/ OnSampleDump
    \/ OnAddNewChannel

SpecCut == Init /\ [][NextCut]_vars

\* -------------------------------------------------- the controllers' machine
\* one channel's voices under changes and resets of the main volume, with at
\* most PedalVoices objects
VolumeValues == {0, 64 * 128}

NextControl ==
    \/ OnProcess
    \/ OnNoteOn({60}, Zones, {100}, PedalVoices)
    \/ OnKillNote({60})
    \/ OnSampleDump
    \/ OnControllerChange({mainVolume}, VolumeValues)
    \/ OnCcReset({{}})

SpecControl == Init /\ [][NextControl]_vars

\* ---------------------------------------------------- the reset's machine
\* the controller tables, pedals and vibratos of up to MaxChannels channels
\* under changes and resets
ResetSlots == {mainVolume, NON_CC_INDEX_OFFSET + pitchWheel, NON_CC_INDEX_OFFSET + channelTranspose}
Exclusions == SUBSET {mainVolume, sustainPedal}

NextReset ==
    \/ OnCcChange
    \/ OnControllerChange(ResetSlots, {5000})
    \/ OnSetChannelVibrato(Vibratos)
    \/ OnCcReset(Exclusions)
    \/ OnAddNewChannel

SpecReset == Init /\ [][NextReset]_vars

\* ----------------------------------------------------- the stopAll machine
\* voices of one note on up to MaxChannels channels, stopped in both modes,
\* with at most PedalVoices objects
NextStop ==
    \/ OnProcess
    \/ OnNoteOn({60}, Zones, {100}, PedalVoices)
    \/ OnSampleDump
    \/ OnStopAll({0, 1})
    \/ OnAddNewChannel

SpecStop == Init /\ [][NextStop]_vars

\* ------------------------------------------------- the machine that runs on
\* one channel's looping voice, released, killed and recomputed, with blocks
\* that never stop coming: process() is called for every render quantum
NextLive ==
    \/ OnProcess
    \/ Rebase
    \/ OnNoteOn({60}, {ExclusiveZone}, {100}, MaxGroup)
    \/ OnNoteOff({60})
    \/ OnKillNote({60})
    \/ OnSampleDump
    \/ OnControllerChange({mainVolume}, VolumeValues)

SpecLive == Init /\ [][NextLive]_vars /\ WF_vars(OnProcess) /\ WF_vars(Rebase)

\* ------------------------------------------- the per-channel ChannelProcessor
\* One ChannelProcessor serves one channel; its fields voices, sustainedVoices,
\* holdPedal and midiControllers are those of workletProcessorChannels[c], and
\* it posts its own voices.length

\* ChannelProcessor noteOn: exclusive cutoff as in the WorkletProcessor, then
\* the oldest voices above CHANNEL_CAP are spliced off the front
ChannelNoteOn(c, data) ==
    LET ch == workletProcessorChannels[c]
        ids == TakeFree(FreeIds, Len(data))
        classes == {data[i].generators["exclusiveClass"] : i \in DOMAIN data} \ {0}
        cut == {id \in Range(ch.voices) : heap[id].generators["exclusiveClass"] \in classes}
        cutVoice(v) ==
            computeModulators(
                [releaseVoice(v, currentTime) EXCEPT !.generators["releaseVolEnv"] = ExclusiveRelease],
                ch.midiControllers)
        newVoice(v) ==
            [computeModulators(v, ch.midiControllers) EXCEPT !.currentAttenuationDb = 100]
        h1 == [id \in VoiceIds |->
                 IF id \in cut THEN cutVoice(heap[id])
                 ELSE IF id \in Range(ids) THEN newVoice(data[IndexOf(ids, id)])
                 ELSE heap[id]]
        pushed == ch.voices \o ids
        capped == IF Len(pushed) > CHANNEL_CAP
                  THEN SubSeq(pushed, Len(pushed) - CHANNEL_CAP + 1, Len(pushed))
                  ELSE pushed
    IN  /\ Cardinality(FreeIds) >= Len(data)
        /\ workletProcessorChannels' = [workletProcessorChannels EXCEPT ![c].voices = capped]
        /\ heap' = Collect(workletProcessorChannels', h1)
        /\ UNCHANGED <<workletDumpedSamplesList, totalVoicesAmount, currentTime>>

\* ChannelProcessor killNotes: this.voices.splice(0, data)
ChannelKillNotes(c, amount) ==
    LET voices == workletProcessorChannels[c].voices
    IN  /\ workletProcessorChannels' = [workletProcessorChannels EXCEPT
                          ![c].voices = SubSeq(voices, Min(amount, Len(voices)) + 1, Len(voices))]
        /\ heap' = Collect(workletProcessorChannels', heap)
        /\ UNCHANGED <<workletDumpedSamplesList, totalVoicesAmount, currentTime>>

\* a ChannelProcessor handler run on a message; posts tells whether the
\* handler ends in this.port.postMessage(this.voices.length)
ChannelHandle(handler, message, posts) ==
    /\ handler
    /\ lastEvent' = IF state' = state THEN lastEvent ELSE message
    /\ portMessage' = IF posts
                      THEN Len(workletProcessorChannels'[message.channelNumber].voices)
                      ELSE portMessage
    /\ UNCHANGED <<builder, synthEvents>>

OnChannelNoteOn(notes, zones, velocities, objects) ==
    \E c \in DOMAIN workletProcessorChannels : \E data \in NoteOnData(c, notes, zones, velocities) :
        /\ Cardinality(VoiceIds \ FreeIds) + Len(data) <= objects
        /\ ChannelHandle(ChannelNoteOn(c, data), Event("noteOn", c, data[1].midiNote), TRUE)

OnChannelKillNotes ==
    \E c \in DOMAIN workletProcessorChannels : \E amount \in KillAmounts :
        ChannelHandle(ChannelKillNotes(c, amount), Event("killNotes", c, amount), TRUE)

\* one ChannelProcessor receiving notes and killNotes
NextChannel ==
    \/ OnChannelNoteOn(Notes, Zones, Velocities, MaxVoices)
    \/ OnChannelKillNotes

SpecChannel == Init /\ [][NextChannel]_vars

\* the main thread building voice groups
OnGetWorkletVoices ==
    \E midiNote \in Notes : \E velocity \in Velocities :
        /\ getWorkletVoices(midiNote, velocity)
        /\ UNCHANGED <<state, lastEvent, portMessage, synthEvents>>

OnClearSamplesList ==
    /\ clearSamplesList
    /\ UNCHANGED <<state, lastEvent, portMessage, synthEvents>>

OnSampleDecoded ==
    \E id \in PresetSampleIds :
        /\ sampleDecoded(id)
        /\ UNCHANGED <<state, lastEvent, portMessage, synthEvents>>

\* the voice builder with the audio clock running
NextBuild ==
    \/ OnProcess
    \/ OnGetWorkletVoices
    \/ OnClearSamplesList
    \/ OnSampleDecoded

SpecBuild == Init /\ [][NextBuild]_vars

\* the voice-count updates: notes on up to two channels that may be muted,
\* with the audio thread calling process() for ever
NextPost ==
    \/ OnProcess
    \/ Rebase
    \/ OnNoteOn({60}, Zones, {100}, RenderVoices)
    \/ OnSampleDump
    \/ OnMuteChannel
    \/ OnAddNewChannel

SpecPost == Init /\ [][NextPost]_vars /\ WF_vars(OnProcess) /\ WF_vars(Rebase)

C2_Exempt(c, id) ==
    \/ \E val \in SustainValues : val < 64 /\ CcChange(c, sustainPedal, val)
    \/ \E note \in Notes : KillNote(c, note)
    \/ \E mode \in {0, 1} : StopAll(c, mode)
    \/ \E data \in NoteOnData(c, Notes, Zones, Velocities) :
          /\ NoteOn(c, data)
          /\ \E i \in DOMAIN data :
                /\ data[i].generators["exclusiveClass"] # 0
                /\ data[i].generators["exclusiveClass"] = heap[id].generators["exclusiveClass"]

C3_PedalChange ==
    [][\A c \in DOMAIN workletProcessorChannels : \A val \in SustainValues :
         CcChange(c, sustainPedal, val) =>
            IF val < 64
            THEN /\ ~workletProcessorChannels'[c].holdPedal
                 /\ workletProcessorChannels'[c].sustainedVoices = <<>>
                 /\ \A id \in Range(workletProcessorChannels[c].sustainedVoices) :
                       id \in Reachable(workletProcessorChannels') =>
                          heap'[id].releaseStartTime =
                             Max(currentTime, heap[id].startTime + MIN_NOTE_LENGTH)
            ELSE /\ workletProcessorChannels'[c].holdPedal
                 /\ workletProcessorChannels'[c].sustainedVoices = workletProcessorChannels[c].sustainedVoices
                 /\ \A id \in Reachable(workletProcessorChannels) :
                       /\ id \in Reachable(workletProcessorChannels')
                       /\ heap'[id].releaseStartTime = heap[id].releaseStartTime]_vars

\* the pedal has just gone up and released a parked voice inside its minimum length
C3_Witness ==
    /\ lastEvent.messageType = "ccChange"
    /\ lastEvent.messageData[2] < 64
    /\ \E c \in DOMAIN workletProcessorChannels :
          /\ lastEvent.channelNumber = c
          /\ ~workletProcessorChannels[c].holdPedal
          /\ workletProcessorChannels[c].sustainedVoices = <<>>
          /\ \E id \in Range(workletProcessorChannels[c].voices) :
                /\ heap[id].startTime = currentTime
                /\ heap[id].releaseStartTime = currentTime + MIN_NOTE_LENGTH

\* C4 as stated: once a voice's releaseStartTime is finite, no later release
\* changes it
C4_ReleaseOnce ==
    [][\A id \in Reachable(workletProcessorChannels) :
         (heap[id].releaseStartTime # Infinity /\ id \in Reachable(workletProcessorChannels')) =>
            heap'[id].releaseStartTime = heap[id].releaseStartTime]_vars

\* the live voices: the members of the channels' voices lists
LiveVoices(chs) == UNION {Range(chs[c].voices) : c \in DOMAIN chs}

\* this step took n voices, or all there were, out of the set before, none
\* of them louder (by the velocities vel) than a voice it left
C5_Stolen(before, vel, n) ==
    LET after == LiveVoices(workletProcessorChannels')
    IN  /\ after \subseteq before
        /\ Cardinality(before \ after) = Min(n, Cardinality(before))
        /\ \A r \in before \ after : \A k \in after : vel[r] <= vel[k]

\* C5: voice stealing of n voices, by killNotes(n) or by a noteOn that goes
\* over the cap, takes exactly min(n, live count) voices out of the live
\* voices of all channels, and every voice taken has a velocity less than or
\* equal to that of every voice left
C5_StealsLowest ==
    [][/\ \A c \in DOMAIN workletProcessorChannels : \A amount \in KillAmounts :
            (lastEvent' = Event("killNotes", c, amount) /\ KillNotes(c, amount)) =>
               C5_Stolen(LiveVoices(workletProcessorChannels),
                         [id \in LiveVoices(workletProcessorChannels) |-> heap[id].velocity], amount)
       /\ \A c \in DOMAIN workletProcessorChannels : \A note \in Notes :
            lastEvent' = Event("noteOn", c, note) =>
            \A data \in NoteOnData(c, {note}, Zones, Velocities) :
            (totalVoicesAmount + Len(data) > VOICE_CAP /\ NoteOn(c, data)) =>
               LET ids == TakeFree(FreeIds, Len(data))
                   before == LiveVoices(workletProcessorChannels) \cup Range(ids)
                   vel == [id \in before |->
                             IF id \in Range(ids) THEN data[IndexOf(ids, id)].velocity
                             ELSE heap[id].velocity]
               IN  C5_Stolen(before, vel, totalVoicesAmount + Len(data) - VOICE_CAP)]_vars

\* killNotes(1) has just taken one of three voices and left the two loud ones
C5_Witness ==
    /\ lastEvent.messageType = "killNotes"
    /\ lastEvent.messageData = 1
    /\ Cardinality(LiveVoices(workletProcessorChannels)) = MaxVoices - 1
    /\ \A id \in LiveVoices(workletProcessorChannels) : heap[id].velocity = 100

\* every voice of a voices list carries that channel's number, once
C6_OwnLists ==
    \A c \in DOMAIN workletProcessorChannels :
       /\ Cardinality(Range(workletProcessorChannels[c].voices)) = Len(workletProcessorChannels[c].voices)
       /\ \A id \in Range(workletProcessorChannels[c].voices) : heap[id].channelNumber = c

\* C6: each live voice is in exactly one voices list, that of the channel
\* whose index is its channelNumber, and killNotes(n) leaves every voice it
\* did not select in its channel's list, in the same relative order
C6_OwnListsKeepOrder ==
    /\ []C6_OwnLists
    /\ [][\A c \in DOMAIN workletProcessorChannels : \A amount \in KillAmounts :
            (lastEvent' = Event("killNotes", c, amount) /\ KillNotes(c, amount)) =>
               LET selected == Range(KillSelection(workletProcessorChannels, heap, amount))
               IN  \A c2 \in DOMAIN workletProcessorChannels :
                      workletProcessorChannels'[c2].voices =
                         SelectSeq(workletProcessorChannels[c2].voices, LAMBDA id : id \notin selected)]_vars

\* killNotes has just taken a voice from a channel that keeps a loud voice
\* ahead of a quiet one, while another channel holds nothing
C6_Witness ==
    /\ lastEvent.messageType = "killNotes"
    /\ lastEvent.messageData >= 1
    /\ \E c \in DOMAIN workletProcessorChannels :
          /\ Len(workletProcessorChannels[c].voices) = 2
          /\ heap[workletProcessorChannels[c].voices[1]].velocity = 100
          /\ heap[workletProcessorChannels[c].voices[2]].velocity = 40
          /\ heap[workletProcessorChannels[c].voices[1]].channelNumber = c
          /\ heap[workletProcessorChannels[c].voices[2]].channelNumber = c

\* C7 as stated: after any noteOn the live voices of all channels number at
\* most VOICE_CAP
C7_CapAfterNoteOn ==
    [][\A c \in DOMAIN workletProcessorChannels : \A note \in Notes :
         lastEvent' = Event("noteOn", c, note) =>
            \A data \in NoteOnData(c, {note}, Zones, Velocities) :
               NoteOn(c, data) => Cardinality(LiveVoices(workletProcessorChannels')) <= VOICE_CAP]_vars

\* C8 as stated: at the end of every block totalVoicesAmount is the sum of
\* the lengths of the channels' voices lists
C8_CounterIsSum ==
    [][Process => totalVoicesAmount' = Cardinality(LiveVoices(workletProcessorChannels'))]_vars

\* what a block may do to a voices list: drop voices that are finished when
\* rendered, and nothing else, keeping the order of the rest
C9_DropsOnlyFinished ==
    \A c \in DOMAIN workletProcessorChannels :
       /\ workletProcessorChannels'[c].voices =
             SelectSeq(workletProcessorChannels[c].voices,
                       LAMBDA id : id \in Range(workletProcessorChannels'[c].voices))
       /\ \A id \in Range(workletProcessorChannels[c].voices) \ Range(workletProcessorChannels'[c].voices) :
             renderVoice(heap[id], currentTime).finished

\* C9 as stated: after each block no channel's voices list holds a finished
\* voice, and the block drops no voice that is not finished and keeps the order
C9_NoFinishedLeft ==
    [][Process =>
         /\ C9_DropsOnlyFinished
         /\ \A c \in DOMAIN workletProcessorChannels : \A id \in Range(workletProcessorChannels'[c].voices) :
               ~heap'[id].finished]_vars

\* C9 amended: after each block no voices list of a channel that is not
\* muted holds a finished voice (a muted channel is skipped and keeps its
\* list as it is), and the block drops no voice that is not finished and
\* keeps the order
C9_NoFinishedLeftUnmuted ==
    [][Process =>
         /\ C9_DropsOnlyFinished
         /\ \A c \in DOMAIN workletProcessorChannels :
               IF workletProcessorChannels[c].isMuted
               THEN workletProcessorChannels'[c].voices = workletProcessorChannels[c].voices
               ELSE \A id \in Range(workletProcessorChannels'[c].voices) : ~heap'[id].finished]_vars

\* a block has gone by a muted channel whose voice a sample dump had finished
C9_Witness ==
    /\ lastEvent.messageType = "process"
    /\ \E c \in DOMAIN workletProcessorChannels :
          /\ workletProcessorChannels[c].isMuted
          /\ \E id \in Range(workletProcessorChannels[c].voices) : heap[id].finished

\* C10: a block that renders a voice whose sample is not in the store skips
\* it: the voice's finished flag stays false, isInRelease, cursor, envelope
\* state and every other field stay as they were, and the voice stays in its
\* channel's list, also when its releaseStartTime has passed
C10_MissingSampleSkipped ==
    [][Process =>
         \A c \in DOMAIN workletProcessorChannels : \A id \in Range(workletProcessorChannels[c].voices) :
            (/\ Rendered(c)
             /\ workletDumpedSamplesList[heap[id].sample.sampleID] = 0
             /\ ~heap[id].finished) =>
               /\ id \in Range(workletProcessorChannels'[c].voices)
               /\ heap'[id] = heap[id]]_vars

\* a block has rendered a voice with no sample whose release time had passed
C10_Witness ==
    /\ lastEvent.messageType = "process"
    /\ \E c \in DOMAIN workletProcessorChannels :
          /\ ~workletProcessorChannels[c].isMuted
          /\ \E id \in Range(workletProcessorChannels[c].voices) :
                /\ workletDumpedSamplesList[heap[id].sample.sampleID] = 0
                /\ heap[id].releaseStartTime < currentTime
                /\ ~heap[id].isInRelease
                /\ ~heap[id].finished
                /\ heap[id].sample.cursor = 0

\* the end a sample dump of SampleFrames frames gives a voice
DumpedEnd(v) ==
    SampleFrames - 1 + v.generators["endAddrOffset"]
        + v.generators["endAddrsCoarseOffset"] * 32768

\* C11 as stated: right after sampleDump(S) every live voice of the
\* message's channel with sample id S has 0 <= cursor <= end, end being the
\* dumped length - 1 + endAddrOffset + 32768 * endAddrsCoarseOffset
C11_CursorInRange ==
    [][\A c \in DOMAIN workletProcessorChannels : \A sampleID \in SampleIds :
         (lastEvent' = Event("sampleDump", c, sampleID) /\ SampleDump(c, sampleID)) =>
            \A id \in Range(workletProcessorChannels[c].voices) :
               heap[id].sample.sampleID = sampleID =>
                  /\ heap'[id].sample.end = DumpedEnd(heap[id])
                  /\ 0 <= heap'[id].sample.cursor
                  /\ heap'[id].sample.cursor <= heap'[id].sample.end]_vars

\* C12 as stated: sampleDump(S) rehomes every live voice with sample id S on
\* whichever channel it lives: its end is the dumped end and, for a voice
\* that does not loop, its cursor is playbackStep times the time since startTime
C12_RehomesAllChannels ==
    [][\A c \in DOMAIN workletProcessorChannels : \A sampleID \in SampleIds :
         (lastEvent' = Event("sampleDump", c, sampleID) /\ SampleDump(c, sampleID)) =>
            \A c2 \in DOMAIN workletProcessorChannels :
               \A id \in Range(workletProcessorChannels[c2].voices) :
                  heap[id].sample.sampleID = sampleID =>
                     /\ heap'[id].sample.end = DumpedEnd(heap[id])
                     /\ heap[id].sample.loopingMode = 0 =>
                           heap'[id].sample.cursor =
                              heap[id].sample.playbackStep * (currentTime - heap[id].startTime)]_vars

C14_Delivers(data) == \E i \in DOMAIN data : data[i].generators["exclusiveClass"] # 0

\* the voices of channel c that a noteOn delivering data cuts: those of an
\* exclusive class, not 0, of one of the delivered voices
C14_Cut(c, data) ==
    {id \in Range(workletProcessorChannels[c].voices) :
        /\ heap[id].generators["exclusiveClass"] # 0
        /\ \E i \in DOMAIN data :
              data[i].generators["exclusiveClass"] = heap[id].generators["exclusiveClass"]}

\* what the cutoff does to a cut voice and to the others that are still there
C14_CutFields(c, data) ==
    /\ \A id \in C14_Cut(c, data) \cap Reachable(workletProcessorChannels') :
          /\ heap'[id].generators["releaseVolEnv"] = ExclusiveRelease
          /\ heap'[id].releaseStartTime # Infinity
          /\ heap'[id].modulatedGenerators =
                computeModulators(heap'[id], workletProcessorChannels[c].midiControllers).modulatedGenerators
    /\ \A id \in (Reachable(workletProcessorChannels) \ C14_Cut(c, data))
                    \cap Reachable(workletProcessorChannels') :
          heap'[id] = heap[id]

\* the cut voices are in the channel's voices list after the noteOn, and a
\* voice that was not there before is there with them
C14_CutStay(c, data) ==
    /\ C14_Cut(c, data) \subseteq Range(workletProcessorChannels'[c].voices)
    /\ Range(workletProcessorChannels'[c].voices) \ Range(workletProcessorChannels[c].voices) # {}

\* the lists after a noteOn that stole nothing: the channel's voices with the
\* delivered ones after them, every other list as it was
C14_AllStay(c, data) ==
    /\ Len(workletProcessorChannels'[c].voices) = Len(workletProcessorChannels[c].voices) + Len(data)
    /\ SubSeq(workletProcessorChannels'[c].voices, 1, Len(workletProcessorChannels[c].voices))
          = workletProcessorChannels[c].voices
    /\ \A c2 \in DOMAIN workletProcessorChannels :
          /\ c2 # c => workletProcessorChannels'[c2] = workletProcessorChannels[c2]
          /\ workletProcessorChannels'[c2].sustainedVoices = workletProcessorChannels[c2].sustainedVoices

\* C14 as stated: when noteOn delivers a voice of exclusive class k # 0, every
\* voice already live on the channel with class k gets generators[releaseVolEnv]
\* = -7200, a finite releaseStartTime and recomputed modulatedGenerators, and
\* stays in the voice list alongside the new voice; voices of another class
\* and voices of other channels are unchanged
C14_CutAndStays ==
    [][\A c \in DOMAIN workletProcessorChannels :
         lastEvent' = Event("noteOn", c, 60) =>
            \A data \in NoteOnData(c, {60}, CutZones, {100}) :
               (NoteOn(c, data) /\ C14_Delivers(data)) =>
                  C14_CutFields(c, data) /\ C14_CutStay(c, data)]_vars

\* C14 amended: when noteOn delivers a voice of exclusive class k # 0, the
\* voices of class k on the channel that are still live after the noteOn have
\* generators[releaseVolEnv] = -7200, a finite releaseStartTime and recomputed
\* modulatedGenerators, and every other voice still live is unchanged; when the
\* noteOn does not take totalVoicesAmount over VOICE_CAP no voice is stolen:
\* the cut voices stay in the voice list with the new voices after them, and
\* the other lists are as they were
C14_CutAndStaysUnderCap ==
    [][\A c \in DOMAIN workletProcessorChannels :
         lastEvent' = Event("noteOn", c, 60) =>
            \A data \in NoteOnData(c, {60}, CutZones, {100}) :
               (NoteOn(c, data) /\ C14_Delivers(data)) =>
                  /\ C14_CutFields(c, data)
                  /\ totalVoicesAmount + Len(data) <= VOICE_CAP => C14_AllStay(c, data)]_vars

\* a voice cut by a later voice of its class on its channel, both in the list
C14_Witness ==
    /\ lastEvent.messageType = "noteOn"
    /\ \E c \in DOMAIN workletProcessorChannels :
          /\ lastEvent.channelNumber = c
          /\ Len(workletProcessorChannels[c].voices) = 2
          /\ heap[workletProcessorChannels[c].voices[1]].generators["exclusiveClass"] = 1
          /\ heap[workletProcessorChannels[c].voices[1]].generators["releaseVolEnv"] = ExclusiveRelease
          /\ heap[workletProcessorChannels[c].voices[1]].releaseStartTime # Infinity
          /\ heap[workletProcessorChannels[c].voices[2]].generators["exclusiveClass"] = 1
          /\ heap[workletProcessorChannels[c].voices[2]].releaseStartTime = Infinity


\* C15: whenever a voice is released at time now its releaseStartTime becomes
\* max(now, startTime + MIN_NOTE_LENGTH): every step that changes a voice's
\* releaseStartTime sets it to that value, so a finite releaseStartTime is
\* never earlier than startTime + MIN_NOTE_LENGTH, and a voice that has
\* entered release did so no earlier than MIN_NOTE_LENGTH after its startTime
C15_ReleaseFloored ==
    /\ [](\A id \in Reachable(workletProcessorChannels) :
            /\ heap[id].releaseStartTime # Infinity =>
                  heap[id].releaseStartTime >= heap[id].startTime + MIN_NOTE_LENGTH
            /\ heap[id].isInRelease =>
                  /\ heap[id].releaseStartTime # Infinity
                  /\ currentTime >= heap[id].startTime + MIN_NOTE_LENGTH)
    /\ [][\A id \in Reachable(workletProcessorChannels) \cap Reachable(workletProcessorChannels') :
            /\ heap'[id].releaseStartTime # heap[id].releaseStartTime =>
                  heap'[id].releaseStartTime =
                     Max(currentTime, heap[id].startTime + MIN_NOTE_LENGTH)
            /\ (heap'[id].isInRelease /\ ~heap[id].isInRelease) =>
                  currentTime >= heap[id].startTime + MIN_NOTE_LENGTH]_vars

\* a noteOff has just released a voice in the quantum it started in: its
\* release is put off to the end of the minimum note length
C15_Witness ==
    /\ lastEvent.messageType = "noteOff"
    /\ \E id \in Reachable(workletProcessorChannels) :
          /\ heap[id].midiNote = lastEvent.messageData
          /\ heap[id].startTime = currentTime
          /\ heap[id].releaseStartTime = currentTime + MIN_NOTE_LENGTH
          /\ ~heap[id].isInRelease


\* C16: noteOff(note) on a channel whose hold pedal is up releases exactly
\* the live voices of the channel with midiNote = note that are not in
\* release (isInRelease): they get the releaseStartTime max(now, startTime +
\* MIN_NOTE_LENGTH); voices with another note, voices in release and all
\* voices of other channels keep their releaseStartTime, and no voices or
\* sustainedVoices list changes
C16_NoteOffReleases ==
    [][\A c \in DOMAIN workletProcessorChannels : \A note \in Notes :
         (lastEvent' = Event("noteOff", c, note) /\ NoteOff(c, note)
            /\ ~workletProcessorChannels[c].holdPedal) =>
            /\ \A c2 \in DOMAIN workletProcessorChannels :
                  /\ workletProcessorChannels'[c2].voices = workletProcessorChannels[c2].voices
                  /\ workletProcessorChannels'[c2].sustainedVoices = workletProcessorChannels[c2].sustainedVoices
            /\ \A id \in Reachable(workletProcessorChannels) :
                  heap'[id].releaseStartTime =
                     IF /\ id \in Range(workletProcessorChannels[c].voices)
                        /\ heap[id].midiNote = note
                        /\ ~heap[id].isInRelease
                     THEN Max(currentTime, heap[id].startTime + MIN_NOTE_LENGTH)
                     ELSE heap[id].releaseStartTime]_vars

\* a noteOff with the pedal up has just released the voice of its note and
\* left a voice of the same note on another channel alone
C16_Witness ==
    /\ lastEvent.messageType = "noteOff"
    /\ \E c \in DOMAIN workletProcessorChannels :
          /\ lastEvent.channelNumber = c
          /\ ~workletProcessorChannels[c].holdPedal
          /\ \E id \in Range(workletProcessorChannels[c].voices) :
                /\ heap[id].midiNote = lastEvent.messageData
                /\ heap[id].releaseStartTime = currentTime
          /\ \E c2 \in DOMAIN workletProcessorChannels \ {c} :
                \E id \in Range(workletProcessorChannels[c2].voices) :
                   /\ heap[id].midiNote = lastEvent.messageData
                   /\ heap[id].releaseStartTime = Infinity


\* C17: immediately after killNote(note) every live voice of the channel with
\* midiNote = note, in release or not, has modulatedGenerators[releaseVolEnv]
\* = -12000 and a finite releaseStartTime; the voices with another note, and
\* those of other channels, are unchanged, and so is every list
C17_KillNote ==
    [][\A c \in DOMAIN workletProcessorChannels : \A note \in Notes :
         (lastEvent' = Event("killNote", c, note) /\ KillNote(c, note)) =>
            /\ \A c2 \in DOMAIN workletProcessorChannels :
                  workletProcessorChannels'[c2] = workletProcessorChannels[c2]
            /\ \A id \in Reachable(workletProcessorChannels) :
                  IF id \in Range(workletProcessorChannels[c].voices) /\ heap[id].midiNote = note
                  THEN /\ heap'[id].modulatedGenerators["releaseVolEnv"] = KillRelease
                       /\ heap'[id].releaseStartTime # Infinity
                  ELSE heap'[id] = heap[id]]_vars

\* a killNote has just shortened the release of a voice that was already in
\* release with a longer one, beside a voice of another note
C17_Witness ==
    /\ lastEvent.messageType = "killNote"
    /\ \E c \in DOMAIN workletProcessorChannels :
          /\ lastEvent.channelNumber = c
          /\ \E id \in Range(workletProcessorChannels[c].voices) :
                /\ heap[id].midiNote = lastEvent.messageData
                /\ heap[id].isInRelease
                /\ heap[id].generators["releaseVolEnv"] # KillRelease
                /\ heap[id].modulatedGenerators["releaseVolEnv"] = KillRelease
                /\ heap[id].releaseStartTime = currentTime
          /\ \E id \in Range(workletProcessorChannels[c].voices) :
                /\ heap[id].midiNote # lastEvent.messageData
                /\ heap[id].releaseStartTime = Infinity


\* the voice's modulatedGenerators are what computeModulators gives for its
\* generators and the controller table
C18_Consistent(v, controllers) ==
    v.modulatedGenerators = computeModulators(v, controllers).modulatedGenerators

\* C18: immediately after ccChange(cc, val) the channel's controller slot cc
\* holds val and every live voice of the channel has modulatedGenerators equal
\* to computeModulators of its generators and the updated table; immediately
\* after a noteOn every voice it added, and every voice it cut by an exclusive
\* class, has modulatedGenerators consistent with the channel's controllers
C18_ModulatorsFollow ==
    [][\A c \in DOMAIN workletProcessorChannels :
         /\ \A val \in VolumeValues :
               (lastEvent' = Event("ccChange", c, <<mainVolume, val>>)
                  /\ CcChange(c, mainVolume, val)) =>
                  /\ workletProcessorChannels'[c].midiControllers[mainVolume] = val
                  /\ \A id \in Range(workletProcessorChannels'[c].voices) :
                        C18_Consistent(heap'[id], workletProcessorChannels'[c].midiControllers)
         /\ lastEvent' = Event("noteOn", c, 60) =>
               \A data \in NoteOnData(c, {60}, Zones, {100}) :
                  NoteOn(c, data) =>
                     \A id \in Range(workletProcessorChannels'[c].voices) :
                        (id \notin Range(workletProcessorChannels[c].voices) \/ id \in C14_Cut(c, data)) =>
                           C18_Consistent(heap'[id], workletProcessorChannels'[c].midiControllers)]_vars

\* a ccChange has just turned the main volume of a channel down to 0 and the
\* channel's voice, killed before, has its modulated generators recomputed
\* from the new table
C18_Witness ==
    /\ lastEvent.messageType = "ccChange"
    /\ \E c \in DOMAIN workletProcessorChannels :
          /\ lastEvent.channelNumber = c
          /\ lastEvent.messageData = <<mainVolume, 0>>
          /\ workletProcessorChannels[c].midiControllers[mainVolume] = 0
          /\ \E id \in Range(workletProcessorChannels[c].voices) :
                /\ heap[id].modulatedGenerators["initialAttenuation"]
                      = heap[id].generators["initialAttenuation"] + 960
                /\ heap[id].generators["exclusiveClass"] = 1
                /\ heap[id].releaseStartTime # Infinity
                /\ heap[id].modulatedGenerators["releaseVolEnv"] = heap[id].generators["releaseVolEnv"]


\* C19 as stated: in the block that follows a ccReset that changed a channel's
\* controller table, every live voice of the channel whose sample is there
\* is rendered with modulatedGenerators that, in every generator a modulator of the voice
\* writes to, are computed from the reset table
C19_RenderedFromResetTable ==
    [][(Process /\ lastEvent.messageType = "ccReset") =>
          \A id \in Range(workletProcessorChannels[lastEvent.channelNumber].voices) :
             \A i \in DOMAIN heap[id].modulators :
                workletDumpedSamplesList[heap[id].sample.sampleID] # 0 =>
                heap[id].modulatedGenerators[heap[id].modulators[i].destination] =
                   computeModulators(heap[id],
                       workletProcessorChannels[lastEvent.channelNumber].midiControllers
                     ).modulatedGenerators[heap[id].modulators[i].destination]]_vars


\* the default of a controller slot
C20_Default(cc) ==
    CASE cc = mainVolume -> 12800
      [] cc = expressionController -> 16256
      [] cc = pan -> 8192
      [] cc = releaseTime -> 8192
      [] cc = brightness -> 8192
      [] cc = NON_CC_INDEX_OFFSET + pitchWheel -> 8192
      [] cc = NON_CC_INDEX_OFFSET + pitchWheelRange -> 256
      [] cc = NON_CC_INDEX_OFFSET + channelPressure -> 16256
      [] OTHER -> 0

\* C20: after ccReset(excluded) on a channel every controller slot holds its
\* default, except channelTranspose and the slots listed in excluded, which
\* keep their values; holdPedal is false and channelVibrato is {delay 0,
\* depth 0, rate 0}; the other channels are unchanged
C20_ResetToDefaults ==
    [][\A c \in DOMAIN workletProcessorChannels :
         \A excluded \in Exclusions :
            CcReset(c, excluded) =>
               /\ \A cc \in CCs :
                     workletProcessorChannels'[c].midiControllers[cc] =
                        IF cc = NON_CC_INDEX_OFFSET + channelTranspose \/ cc \in excluded
                        THEN workletProcessorChannels[c].midiControllers[cc]
                        ELSE C20_Default(cc)
               /\ ~workletProcessorChannels'[c].holdPedal
               /\ workletProcessorChannels'[c].channelVibrato = [delay |-> 0, depth |-> 0, rate |-> 0]
               /\ \A c2 \in DOMAIN workletProcessorChannels \ {c} :
                     workletProcessorChannels'[c2] = workletProcessorChannels[c2]]_vars

\* a ccReset excluding the main volume has just reset a channel that keeps
\* its changed main volume and transposition, beside a channel whose pitch
\* wheel, pedal and vibrato are still off their defaults
C20_Witness ==
    /\ lastEvent.messageType = "ccReset"
    /\ \E c \in DOMAIN workletProcessorChannels :
          /\ lastEvent.channelNumber = c
          /\ lastEvent.messageData = {mainVolume}
          /\ workletProcessorChannels[c].midiControllers[mainVolume] = 5000
          /\ workletProcessorChannels[c].midiControllers[NON_CC_INDEX_OFFSET + channelTranspose] = 5000
          /\ workletProcessorChannels[c].midiControllers[NON_CC_INDEX_OFFSET + pitchWheel] = 8192
          /\ \E c2 \in DOMAIN workletProcessorChannels \ {c} :
                /\ workletProcessorChannels[c2].midiControllers[NON_CC_INDEX_OFFSET + pitchWheel] = 5000
                /\ workletProcessorChannels[c2].holdPedal
                /\ workletProcessorChannels[c2].channelVibrato.depth = 50


\* C21: stopAll(1) on a channel leaves it with no live voice at once;
\* stopAll(0) removes no voice and gives every voice of the channel that is
\* not in release a finite releaseStartTime; the voices already in release
\* and the voices of the other channels are unchanged in both modes
C21_StopAll ==
    [][\A c \in DOMAIN workletProcessorChannels : \A mode \in {0, 1} :
         (lastEvent' = Event("stopAll", c, mode) /\ StopAll(c, mode)) =>
            /\ \A c2 \in DOMAIN workletProcessorChannels \ {c} :
                  /\ workletProcessorChannels'[c2] = workletProcessorChannels[c2]
                  /\ \A id \in Range(workletProcessorChannels[c2].voices) : heap'[id] = heap[id]
            /\ IF mode = 1
               THEN workletProcessorChannels'[c].voices = <<>>
               ELSE /\ workletProcessorChannels'[c].voices = workletProcessorChannels[c].voices
                    /\ \A id \in Range(workletProcessorChannels[c].voices) :
                          IF heap[id].isInRelease
                          THEN heap'[id] = heap[id]
                          ELSE heap'[id].releaseStartTime # Infinity]_vars

\* a stopAll(0) has just released a channel's sounding voice beside a voice
\* of another channel that is still held
C21_Witness ==
    /\ lastEvent.messageType = "stopAll"
    /\ lastEvent.messageData = 0
    /\ \E c \in DOMAIN workletProcessorChannels :
          /\ lastEvent.channelNumber = c
          /\ \E id \in Range(workletProcessorChannels[c].voices) :
                /\ ~heap[id].isInRelease
                /\ heap[id].releaseStartTime = currentTime
          /\ \E c2 \in DOMAIN workletProcessorChannels \ {c} :
                \E id \in Range(workletProcessorChannels[c2].voices) :
                   heap[id].releaseStartTime = Infinity


\* C22 as stated: a voice with a finite releaseStartTime, on a channel that is
\* not muted and with its sample in the store, is eventually finished and
\* out of its channel's voices list, when blocks keep running and the clock
\* advances
C22_ReleasedGoesAway ==
    \A id \in VoiceIds :
       (/\ id \in LiveVoices(workletProcessorChannels)
        /\ heap[id].releaseStartTime # Infinity
        /\ ~workletProcessorChannels[heap[id].channelNumber].isMuted
        /\ workletDumpedSamplesList[heap[id].sample.sampleID] # 0)
          ~> (id \notin LiveVoices(workletProcessorChannels))


\* C23 as stated: whenever clearCache empties the store no channel has a live
\* voice, so no live voice refers to a sample that was in the store before
\* the clear and is not after it
C23_ClearedOnlyWhenIdle ==
    [][\A c \in DOMAIN workletProcessorChannels :
         (ClearCache(c) /\ workletDumpedSamplesList' # workletDumpedSamplesList) =>
            /\ LiveVoices(workletProcessorChannels) = {}
            /\ \A id \in LiveVoices(workletProcessorChannels') :
                  ~(/\ workletDumpedSamplesList[heap'[id].sample.sampleID] # 0
                    /\ workletDumpedSamplesList'[heap'[id].sample.sampleID] = 0)]_vars


\* C24: a block changes no field of any voice of a muted channel and removes
\* none of its voices, and muteChannel changes only the flag of its channel
C24_MutedUntouched ==
    /\ [][Process =>
            \A c \in DOMAIN workletProcessorChannels :
               workletProcessorChannels[c].isMuted =>
                  /\ workletProcessorChannels'[c] = workletProcessorChannels[c]
                  /\ \A id \in Range(workletProcessorChannels[c].voices) :
                        heap'[id] = heap[id]]_vars
    /\ [][\A c \in DOMAIN workletProcessorChannels : \A muted \in BOOLEAN :
            MuteChannel(c, muted) =>
               state' = <<[workletProcessorChannels EXCEPT ![c].isMuted = muted], heap,
                          workletDumpedSamplesList, totalVoicesAmount, currentTime>>]_vars

\* a block has just passed over a muted channel whose voice has its sample
\* and was never rendered, while it rendered the voice of another channel
C24_Witness ==
    /\ lastEvent.messageType = "process"
    /\ \E c \in DOMAIN workletProcessorChannels :
          /\ workletProcessorChannels[c].isMuted
          /\ \E id \in Range(workletProcessorChannels[c].voices) :
                /\ workletDumpedSamplesList[heap[id].sample.sampleID] # 0
                /\ heap[id].startTime < currentTime
                /\ heap[id].volumeEnvelopeState = 0
          /\ \E c2 \in DOMAIN workletProcessorChannels \ {c} :
                /\ ~workletProcessorChannels[c2].isMuted
                /\ \E id \in Range(workletProcessorChannels[c2].voices) :
                      heap[id].volumeEnvelopeState = 4


\* the voice is rendered in the next block with a modulated initial
\* attenuation above 2500: its channel is not skipped and its sample is there
C25_Silent(c, id) ==
    /\ Rendered(c)
    /\ id \in Range(workletProcessorChannels[c].voices)
    /\ workletDumpedSamplesList[heap[id].sample.sampleID] # 0
    /\ heap[id].modulatedGenerators["initialAttenuation"] > SilentAttenuation

\* C25: a voice rendered with a modulated initialAttenuation above 2500 is
\* skipped: its cursor and envelope state are as before; the block marks it
\* finished, and drops it, exactly when it is in release, a release that
\* begins in this block because now >= releaseStartTime included; otherwise
\* the voice stays, unchanged
C25_SilentSkipped ==
    [][Process =>
         \A c \in DOMAIN workletProcessorChannels : \A id \in VoiceIds :
            C25_Silent(c, id) =>
               IF heap[id].isInRelease \/ currentTime >= heap[id].releaseStartTime
               THEN /\ renderVoice(heap[id], currentTime) =
                          [heap[id] EXCEPT !.isInRelease = TRUE, !.finished = TRUE]
                    /\ id \notin Range(workletProcessorChannels'[c].voices)
               ELSE /\ renderVoice(heap[id], currentTime) = heap[id]
                    /\ heap'[id] = heap[id]
                    /\ (id \in Range(workletProcessorChannels'[c].voices)) = ~heap[id].finished]_vars

\* a block has just skipped a voice that is too quiet and not released: it
\* has its sample, is older than the block, and was never given an envelope
C25_Witness ==
    /\ lastEvent.messageType = "process"
    /\ \E c \in DOMAIN workletProcessorChannels :
          /\ ~workletProcessorChannels[c].isMuted
          /\ \E id \in Range(workletProcessorChannels[c].voices) :
                /\ heap[id].modulatedGenerators["initialAttenuation"] > SilentAttenuation
                /\ workletDumpedSamplesList[heap[id].sample.sampleID] # 0
                /\ heap[id].startTime < currentTime
                /\ heap[id].releaseStartTime = Infinity
                /\ heap[id].volumeEnvelopeState = 0
                /\ heap[id].sample.cursor = 0


\* the counts the main thread holds (the last posted update, 0 for a channel
\* no update has named) are the channels' voices.length
C26_PostedIsActual ==
    \A c \in DOMAIN workletProcessorChannels :
       Len(workletProcessorChannels[c].voices) = (IF c \in DOMAIN portMessage THEN portMessage[c] ELSE 0)

\* C26 as stated, in its weakest reading: with process() called for ever,
\* whenever the last posted voice counts differ from the channels'
\* voices.length, a later update (or a later change) makes them equal again
C26_PostedCatchesUp == (~C26_PostedIsActual) ~> C26_PostedIsActual


\* C27: a voice of the processor whose finished is true and that is still a
\* voice of the processor after a message or a block (an object is never
\* given to a new voice in the step that frees it) has finished true after it
C27_FinishedStays ==
    [][\A id \in VoiceIds :
          (IsVoice(heap[id]) /\ heap[id].finished /\ IsVoice(heap'[id])) => heap'[id].finished]_vars

\* a finished voice is still in the channel after a controller change
C27_Witness ==
    /\ lastEvent.messageType = "ccChange"
    /\ \E id \in Range(workletProcessorChannels[lastEvent.channelNumber].voices) : heap[id].finished


\* C28 as stated: a call of getWorkletVoices that builds a group and stores
\* it in cachedVoices finds every sample of the group's zones loaded
C28_CachedOnlyLoaded ==
    [][\A midiNote \in Notes : \A velocity \in Velocities :
          (/\ getWorkletVoices(midiNote, velocity)
           /\ ~cachedVoices[midiNote][velocity].defined
           /\ cachedVoices' # cachedVoices) =>
             \A zone \in Range(getSamplesAndGenerators(midiNote, velocity)) :
                isSampleLoaded[zone.sampleID]]_vars


\* C29 as stated: when the last call of getWorkletVoices built a group for
\* (midiNote, velocity) with every sample loaded, the next call with the
\* same incoming (midiNote, velocity) is a cache hit and returns the first
\* result with only startTime set to the current time
C29_RepeatIsServed ==
    [][\A midiNote \in Notes : \A velocity \in Velocities :
          (/\ lastCall = [midiNote |-> midiNote, velocity |-> velocity,
                          cached |-> FALSE, loaded |-> TRUE]
           /\ getWorkletVoices(midiNote, velocity)) =>
             /\ lastCall'.cached
             /\ workletVoices' = [i \in DOMAIN workletVoices |->
                                    [workletVoices[i] EXCEPT !.startTime = currentTime]]]_vars

\* C30 as stated: in a group built by one call, the voice of a zone has the
\* zone's velocity generator when it is >= 0 and the incoming velocity
\* otherwise
C30_OwnVelocity ==
    [][\A midiNote \in Notes : \A velocity \in Velocities :
          (/\ getWorkletVoices(midiNote, velocity)
           /\ ~cachedVoices[midiNote][velocity].defined) =>
             LET zones == getSamplesAndGenerators(midiNote, velocity)
             IN  \A i \in DOMAIN zones :
                    workletVoices'[i].velocity =
                       IF zones[i].generators["velocity"] >= 0
                       THEN zones[i].generators["velocity"]
                       ELSE velocity]_vars


\* the voices the builder holds: the last result and the cached groups
BuiltVoices ==
    Range(workletVoices)
      \cup UNION {Range(cachedVoices[n][vel].voices) : n \in Notes, vel \in Velocities}

\* C31: every voice getWorkletVoices returned or cached that loops
\* (loopingMode not 0) has loopStart < loopEnd
C31_LoopIsProper ==
    \A v \in BuiltVoices : v.sample.loopingMode # 0 => v.sample.loopStart < v.sample.loopEnd

\* a group was built from a looping zone and from a zone asking for a loop
\* with loopStart = loopEnd: the first voice loops, the second does not
C31_Witness ==
    /\ lastCall.midiNote = 61
    /\ Len(workletVoices) = 2
    /\ workletVoices[1].sample.loopingMode = 1
    /\ workletVoices[2].sample.loopStart = DegenerateZone.loopStart
    /\ workletVoices[2].sample.loopEnd = DegenerateZone.loopEnd
    /\ workletVoices[2].sample.loopingMode = 0


\* C32 as stated: when getWorkletVoices returns, built or from the cache,
\* the sample of every voice it returns is in globalDumpedSamplesList, that
\* is, its dump was requested since the list was last cleared
C32_ReturnedAreRequested ==
    [][\A midiNote \in Notes : \A velocity \in Velocities :
          getWorkletVoices(midiNote, velocity) =>
             \A i \in DOMAIN workletVoices' :
                workletVoices'[i].sample.sampleID \in globalDumpedSamplesList']_vars


\* C33 as stated: a killNotes(amount) handled by a ChannelProcessor removes
\* min(amount, voices.length) voices of the channel, and no removed voice
\* has a higher velocity than a voice that stays
C33_ChannelKillsLowest ==
    [][\A c \in DOMAIN workletProcessorChannels : \A amount \in KillAmounts :
          ChannelKillNotes(c, amount) =>
             LET before == workletProcessorChannels[c].voices
                 after == workletProcessorChannels'[c].voices
             IN  /\ Len(after) = Len(before) - Min(amount, Len(before))
                 /\ Range(after) \subseteq Range(before)
                 /\ \A gone \in Range(before) \ Range(after) : \A kept \in Range(after) :
                       heap[gone].velocity <= heap[kept].velocity]_vars


\* C34 as stated: a channel whose holdPedal is false has no sustained voices
C34_PedalUpNothingParked ==
    \A c \in DOMAIN workletProcessorChannels :
       ~workletProcessorChannels[c].holdPedal => workletProcessorChannels[c].sustainedVoices = <<>>


\* C35 as stated: every entry of a channel's sustainedVoices is in the
\* channel's voices, and no voice is in sustainedVoices twice
C35_SustainedAreLive ==
    \A c \in DOMAIN workletProcessorChannels :
       LET sustained == workletProcessorChannels[c].sustainedVoices
       IN  /\ Range(sustained) \subseteq Range(workletProcessorChannels[c].voices)
           /\ Cardinality(Range(sustained)) = Len(sustained)


\* C36 as stated: a voice killNote has released (modulated releaseVolEnv
\* -12000, a finite releaseStartTime) that is not finished and is still a
\* voice of its channel after a message or a block keeps the modulated
\* releaseVolEnv -12000
C36_KillReleaseStays ==
    [][\A id \in LiveVoices(workletProcessorChannels) \cap LiveVoices(workletProcessorChannels') :
          (/\ heap[id].modulatedGenerators["releaseVolEnv"] = KillRelease
           /\ heap[id].releaseStartTime # Infinity
           /\ ~heap[id].finished) =>
             heap'[id].modulatedGenerators["releaseVolEnv"] = KillRelease]_vars


\* C37 as stated: since the last clearSamplesList at most one sampleDump
\* message has been posted for any sample id
C37_OneDumpPerSample ==
    \A id \in PresetSampleIds : postedDumps[id] <= 1

\* ------------------------------------------------------------ EventHandler
\* the names, ids, callbacks and event data the callers pass
EventNames == {"noteon", "stopall"}
UnknownNames == {"tempochange"}
EventIds == {"a", "b"}
Callbacks == {"f", "g"}
EventDatas == {0, 1}

\* the position of the key id in the entries of one event name, 0 if it is absent
KeyIndex(entries, id) ==
    IF \E i \in DOMAIN entries : entries[i].id = id
    THEN CHOOSE i \in DOMAIN entries : entries[i].id = id
    ELSE 0

\* an addEvent that adds one more entry whatever is registered under the id
addEventAppending(name, id, callback) ==
    /\ name \in DOMAIN events
    /\ events' = [events EXCEPT ![name] = Append(@, [id |-> id, callback |-> callback])]
    /\ UNCHANGED invoked

\* this.events[name][id] = callback: an existing key keeps its place and gets
\* the new value, a new key goes last; a name that is not in the table throws
\* before anything is written
addEvent(name, id, callback) ==
    /\ name \in DOMAIN events
    /\ LET entries == events[name]
           i == KeyIndex(entries, id)
       IN  events' = [events EXCEPT ![name] =
                         IF i = 0
                         THEN Append(entries, [id |-> id, callback |-> callback])
                         ELSE [entries EXCEPT ![i].callback = callback]]
    /\ UNCHANGED invoked

\* delete this.events[name][id]
removeEvent(name, id) ==
    /\ name \in DOMAIN events
    /\ events' = [events EXCEPT ![name] = SelectSeq(@, LAMBDA e : e.id # id)]
    /\ UNCHANGED invoked

\* if (this.events[name]) Object.values(this.events[name]).forEach(ev => ev(eventData))
callEvent(name, eventData) ==
    /\ invoked' = [name |-> name, eventData |-> eventData,
                   calls |-> IF name \in DOMAIN events
                             THEN [i \in DOMAIN events[name] |-> events[name][i].callback]
                             ELSE <<>>]
    /\ UNCHANGED events

OnAddEvent ==
    \E name \in EventNames : \E id \in EventIds : \E callback \in Callbacks :
        /\ addEvent(name, id, callback)
        /\ UNCHANGED <<state, lastEvent, portMessage, builder>>

OnRemoveEvent ==
    \E name \in EventNames : \E id \in EventIds :
        /\ removeEvent(name, id)
        /\ UNCHANGED <<state, lastEvent, portMessage, builder>>

OnCallEvent ==
    \E name \in EventNames \cup UnknownNames : \E eventData \in EventDatas :
        /\ callEvent(name, eventData)
        /\ UNCHANGED <<state, lastEvent, portMessage, builder>>

\* the event handler on its own
NextEvents ==
    \/ OnAddEvent
    \/ OnRemoveEvent
    \/ OnCallEvent

SpecEvents == Init /\ [][NextEvents]_vars

\* the callback registered under (name, id), "" if there is none
Registered(table, name, id) ==
    IF KeyIndex(table[name], id) = 0 THEN "" ELSE table[name][KeyIndex(table[name], id)].callback

\* every pair other than (name, id) holds what it held
OthersKept(name, id) ==
    \A n \in DOMAIN events : \A k \in EventIds :
        (n # name \/ k # id) => Registered(events', n, k) = Registered(events, n, k)

\* C38: each (event name, id) pair holds at most one callback; addEvent with
\* an id already registered under the name replaces the callback, removeEvent
\* removes it, and callEvent(name, data) invokes exactly the callbacks
\* registered under name, each once with data, and none for a name that is
\* not in the table.
C38_OneCallbackPerId ==
    /\ [](\A name \in DOMAIN events : \A i, j \in DOMAIN events[name] :
            events[name][i].id = events[name][j].id => i = j)
    /\ [][\A name \in EventNames : \A id \in EventIds :
            /\ \A callback \in Callbacks :
                 addEvent(name, id, callback) =>
                     /\ Registered(events', name, id) = callback
                     /\ Len(events'[name]) =
                            Len(events[name]) + (IF KeyIndex(events[name], id) = 0 THEN 1 ELSE 0)
                     /\ OthersKept(name, id)
            /\ removeEvent(name, id) =>
                     /\ Registered(events', name, id) = ""
                     /\ OthersKept(name, id)]_vars
    /\ [][\A name \in EventNames \cup UnknownNames : \A eventData \in EventDatas :
            callEvent(name, eventData) =>
                /\ invoked'.eventData = eventData
                /\ IF name \in DOMAIN events
                   THEN /\ Len(invoked'.calls) = Len(events[name])
                        /\ \A id \in EventIds :
                             Cardinality({i \in DOMAIN invoked'.calls :
                                            events[name][i].id = id
                                            /\ invoked'.calls[i] = Registered(events, name, id)})
                               = (IF Registered(events, name, id) = "" THEN 0 ELSE 1)
                   ELSE invoked'.calls = <<>>]_vars

\* a call has invoked the two callbacks of a name, the first of which had
\* replaced another under its id (the key that was added first holds the
\* callback that differs from the second's)
C38_Witness ==
    /\ invoked.name \in EventNames
    /\ Len(events[invoked.name]) = 2
    /\ invoked.calls = <<"g", "f">>
    /\ invoked.eventData = 1
    /\ Registered(events, invoked.name, "a") = "g"
    /\ Registered(events, "stopall", "b") = "g"

====
